---- MODULE Spec2Model ----
(***************************************************************************)
(* Feature computation engine of the stock predictor (ml-service/app):     *)
(* the per-symbol feature pipeline (features/pipeline.py and the modules   *)
(* it composes), the indicator library (features/technical_indicators.py), *)
(* the candlestick pattern detector (features/candlestick_patterns.py) and *)
(* the feature engineer (features/feature_engineer.py).                    *)
(*                                                                         *)
(* Numbers.  A float is modelled as a fixed-point number: the integer v    *)
(* stands for v / SCALE.  NaN and the two infinities are separate values   *)
(* and follow the IEEE rules numpy applies (x/0 = +-inf, 0/0 = NaN,        *)
(* inf - inf = NaN, every comparison with NaN is false).  Quotients are    *)
(* rounded away from zero, so that, as with floats on these magnitudes, a  *)
(* decaying average of non-zero terms never becomes exactly zero.          *)
(*                                                                         *)
(* Tables.  A pandas DataFrame is a record [cols, index, dates, data]: the *)
(* ordered column names, the ordered row labels, whether the labels are    *)
(* timestamps (a DatetimeIndex) or positions (a RangeIndex), and one       *)
(* series (a sequence of values, one per row) for each column name.        *)
(***************************************************************************)
EXTENDS Integers, Sequences, FiniteSets, TLC

SCALE == 10 * 10 * 10

\* With([x \in {e} |-> body]): body, with x standing for the value of e
With(f) == f[CHOOSE x \in DOMAIN f : TRUE]

\* ------------------------------------------------------------- floats

NaN  == [k |-> "nan", v |-> 0]
PInf == [k |-> "inf", v |-> 1]
NInf == [k |-> "inf", v |-> -1]
Fix(x) == [k |-> "num", v |-> x]
Num(n) == Fix(n * SCALE)
Dec(n, d) == Fix((n * SCALE) \div d)

IsNaN(a) == a.k = "nan"
IsInf(a) == a.k = "inf"
IsNum(a) == a.k = "num"
NotNa(a) == a.k # "nan"

Min2(a, b) == IF a <= b THEN a ELSE b
Max2(a, b) == IF a >= b THEN a ELSE b
AbsI(x) == IF x < 0 THEN -x ELSE x
SgnI(x) == IF x > 0 THEN 1 ELSE IF x < 0 THEN -1 ELSE 0

\* n / d rounded away from zero (d # 0)
RoundDiv(n, d) ==
  LET an == AbsI(n)
      ad == AbsI(d)
      q  == (an \div ad) + (IF an % ad = 0 THEN 0 ELSE 1)
  IN SgnI(n) * SgnI(d) * q

\* (wx * x + wy * y) / (wx + wy) rounded away from zero, for weights wx, wy >= 0
\* with wx + wy > 0, without forming the products wx * x and wy * y
WAvg(x, wx, y, wy) ==
  LET d  == wx + wy
      i  == wx * (x \div d) + wy * (y \div d)
      r  == wx * (x % d) + wy * (y % d)
      fl == i + (r \div d)
  IN IF r % d = 0 THEN fl ELSE IF fl >= 0 THEN fl + 1 ELSE fl

\* (a / SCALE) / (b / SCALE) in fixed point, without forming a * SCALE
FixQuot(a, b) ==
  LET aa == AbsI(a)
      ab == AbsI(b)
      q  == aa \div ab
      r  == aa % ab
  IN SgnI(a) * SgnI(b) * (q * SCALE + RoundDiv(r * SCALE, ab))

Sgn(a) == IF IsInf(a) THEN a.v ELSE SgnI(a.v)
InfOf(s) == IF s < 0 THEN NInf ELSE PInf

Neg(a) == IF IsNaN(a) THEN NaN ELSE [k |-> a.k, v |-> -a.v]
Abs(a) == IF IsNaN(a) THEN NaN ELSE [k |-> a.k, v |-> AbsI(a.v)]

Add(a, b) ==
  IF IsNaN(a) \/ IsNaN(b) THEN NaN
  ELSE IF IsInf(a) THEN (IF IsInf(b) /\ a # b THEN NaN ELSE a)
  ELSE IF IsInf(b) THEN b
  ELSE Fix(a.v + b.v)

Sub(a, b) == Add(a, Neg(b))

Mul(a, b) ==
  IF IsNaN(a) \/ IsNaN(b) THEN NaN
  ELSE IF IsInf(a) \/ IsInf(b)
       THEN (IF Sgn(a) * Sgn(b) = 0 THEN NaN ELSE InfOf(Sgn(a) * Sgn(b)))
  ELSE LET qa == AbsI(a.v) \div SCALE
           ra == AbsI(a.v) % SCALE
       IN Fix(SgnI(a.v) * SgnI(b.v) * (qa * AbsI(b.v) + RoundDiv(ra * AbsI(b.v), SCALE)))

Div(a, b) ==
  IF IsNaN(a) \/ IsNaN(b) THEN NaN
  ELSE IF IsInf(a) THEN (IF IsInf(b) THEN NaN
                         ELSE InfOf(a.v * (IF b.v < 0 THEN -1 ELSE 1)))
  ELSE IF IsInf(b) THEN Fix(0)
  ELSE IF b.v = 0 THEN (IF a.v = 0 THEN NaN ELSE InfOf(a.v))
  ELSE Fix(FixQuot(a.v, b.v))

\* comparisons: false as soon as one side is NaN
Lt(a, b) ==
  /\ NotNa(a) /\ NotNa(b)
  /\ IF IsInf(a) THEN a.v < 0 /\ b # NInf
     ELSE IF IsInf(b) THEN b.v > 0
     ELSE a.v < b.v
Gt(a, b) == Lt(b, a)
Ge(a, b) == NotNa(a) /\ NotNa(b) /\ ~Lt(a, b)
Le(a, b) == Ge(b, a)

\* bool -> int (astype(int)), as a float cell
Bool(p) == IF p THEN Num(1) ELSE Num(0)

\* np.sign
Sign(a) == IF IsNaN(a) THEN NaN ELSE Num(Sgn(a))

\* floor(sqrt(n)) for an integer n >= 0, by bisection
RECURSIVE ISqrtIn(_, _, _)
ISqrtIn(n, lo, hi) ==
  IF lo >= hi THEN lo
  ELSE LET mid == (lo + hi + 1) \div 2
       IN IF mid * mid <= n THEN ISqrtIn(n, mid, hi) ELSE ISqrtIn(n, lo, mid - 1)
ISqrt(n) == ISqrtIn(n, 0, Min2(n, 46340))

\* np.sqrt
Sqrt(a) ==
  IF IsNaN(a) THEN NaN
  ELSE IF IsInf(a) THEN (IF a.v > 0 THEN PInf ELSE NaN)
  ELSE IF a.v < 0 THEN NaN
  ELSE Fix(ISqrt(a.v * SCALE))

\* np.log for a finite x > 0: the argument is halved or doubled into [3/4, 3/2),
\* where ln x = 2 atanh z, z = (x - 1) / (x + 1), is summed to the z^5 term
Ln2 == Fix(693)
RECURSIVE LogPos(_)
LogPos(a) ==
  IF 2 * a.v >= 3 * SCALE THEN Add(Ln2, LogPos(Fix(RoundDiv(a.v, 2))))
  ELSE IF 4 * a.v < 3 * SCALE THEN Sub(LogPos(Fix(2 * a.v)), Ln2)
  ELSE LET z  == Div(Sub(a, Num(1)), Add(a, Num(1)))
           z2 == Mul(z, z)
           z3 == Mul(z2, z)
           z5 == Mul(z3, z2)
       IN Mul(Num(2), Add(z, Add(Div(z3, Num(3)), Div(z5, Num(5)))))
Log(a) ==
  IF IsNaN(a) THEN NaN
  ELSE IF IsInf(a) THEN (IF a.v > 0 THEN PInf ELSE NaN)
  ELSE IF a.v < 0 THEN NaN
  ELSE IF a.v = 0 THEN NInf
  ELSE LogPos(a)
\* np.log10
Log10(a) == Div(Log(a), Log(Num(10)))

\* ------------------------------------------------------------- series
\* A pandas Series is a sequence of floats, row 0 of the code at position 1.

RECURSIVE TabRange(_, _, _)
TabRange(F(_), lo, hi) ==
  IF lo > hi THEN <<>>
  ELSE IF lo = hi THEN <<F(lo)>>
  ELSE LET mid == (lo + hi) \div 2
       IN TabRange(F, lo, mid) \o TabRange(F, mid + 1, hi)

\* the series of length n whose row i is F(i)
Tab(n, F(_)) == TabRange(F, 1, n)

Map(F(_), s) == Tab(Len(s), LAMBDA i : F(s[i]))
\* the operands are aligned series of one length
Map2(F(_, _), a, b) == Tab(Max2(Len(a), Len(b)), LAMBDA i : F(a[i], b[i]))

SAdd(a, b) == Map2(Add, a, b)
SSub(a, b) == Map2(Sub, a, b)
SMul(a, b) == Map2(Mul, a, b)
SDiv(a, b) == Map2(Div, a, b)
SAbs(a) == Map(Abs, a)
SNeg(a) == Map(Neg, a)
\* series op scalar
AddC(a, c) == Map(LAMBDA x : Add(x, c), a)
SubC(a, c) == Map(LAMBDA x : Sub(x, c), a)
MulC(a, c) == Map(LAMBDA x : Mul(x, c), a)
DivC(a, c) == Map(LAMBDA x : Div(x, c), a)
\* scalar op series
CSub(c, a) == Map(LAMBDA x : Sub(c, x), a)
CDiv(c, a) == Map(LAMBDA x : Div(c, x), a)
\* (cond).astype(int)
GtC(a, c) == Map(LAMBDA x : Bool(Gt(x, c)), a)
LtC(a, c) == Map(LAMBDA x : Bool(Lt(x, c)), a)
SGt(a, b) == Map2(LAMBDA x, y : Bool(Gt(x, y)), a, b)
SLt(a, b) == Map2(LAMBDA x, y : Bool(Lt(x, y)), a, b)
SAnd(a, b) == Map2(LAMBDA x, y : Bool(x = Num(1) /\ y = Num(1)), a, b)

\* Series.shift(k): row i takes row i - k; rows without a source are NaN
Shift(s, k) ==
  Tab(Len(s), LAMBDA i : IF i - k >= 1 /\ i - k <= Len(s) THEN s[i - k] ELSE NaN)

\* Series.diff()
Diff(s) == SSub(s, Shift(s, 1))

\* left-to-right scan: the sequence of states st[i] = F(st[i-1], s[i]), st[0] = init.
\* The left half is computed first and its last state starts the right half.
RECURSIVE ScanRange(_, _, _, _, _)
ScanRange(F(_, _), init, s, lo, hi) ==
  IF lo > hi THEN <<>>
  ELSE IF lo = hi THEN <<F(init, s[lo])>>
  ELSE LET mid  == (lo + hi) \div 2
           left == ScanRange(F, init, s, lo, mid)
       IN left \o ScanRange(F, left[Len(left)], s, mid + 1, hi)
Scan(F(_, _), init, s) == ScanRange(F, init, s, 1, Len(s))

\* Series.ffill(): a NaN takes the last value before it
Ffill(s) == Scan(LAMBDA prev, x : IF IsNaN(x) THEN prev ELSE x, NaN, s)

\* Series.pct_change(k), with the default fill_method='pad'
PctChange(s, k) ==
  With([f \in {Ffill(s)} |->
  SubC(SDiv(f, Shift(f, k)), Num(1))])

\* Series.cumsum(): NaN rows are skipped and stay NaN
CumSum(s) ==
  With([st \in {Scan(LAMBDA prev, x : IF IsNaN(x) THEN [sum |-> prev.sum, out |-> NaN]
                             ELSE [sum |-> Add(prev.sum, x), out |-> Add(prev.sum, x)],
            [sum |-> Num(0), out |-> NaN], s)} |->
  Tab(Len(st), LAMBDA i : st[i].out)])

\* ---- rolling windows (min_periods = window: every row of the window counts)
RECURSIVE AllNum(_, _, _)
AllNum(s, lo, hi) ==
  IF lo > hi THEN TRUE
  ELSE IF lo = hi THEN IsNum(s[lo])
  ELSE LET mid == (lo + hi) \div 2 IN AllNum(s, lo, mid) /\ AllNum(s, mid + 1, hi)
RECURSIVE SumV(_, _, _)
SumV(s, lo, hi) ==
  IF lo > hi THEN 0
  ELSE IF lo = hi THEN s[lo].v
  ELSE LET mid == (lo + hi) \div 2 IN SumV(s, lo, mid) + SumV(s, mid + 1, hi)
RECURSIVE MaxV(_, _, _)
MaxV(s, lo, hi) ==
  IF lo = hi THEN s[lo].v
  ELSE LET mid == (lo + hi) \div 2 IN Max2(MaxV(s, lo, mid), MaxV(s, mid + 1, hi))
RECURSIVE MinV(_, _, _)
MinV(s, lo, hi) ==
  IF lo = hi THEN s[lo].v
  ELSE LET mid == (lo + hi) \div 2 IN Min2(MinV(s, lo, mid), MinV(s, mid + 1, hi))

\* Series.rolling(w).apply(F): F(s, lo, hi) is the statistic of rows lo..hi
Rolling(s, w, F(_, _, _)) ==
  Tab(Len(s), LAMBDA i : IF i >= w /\ AllNum(s, i - w + 1, i)
                         THEN F(s, i - w + 1, i) ELSE NaN)

WinSum(s, lo, hi)  == Fix(SumV(s, lo, hi))
WinMean(s, lo, hi) == Fix(RoundDiv(SumV(s, lo, hi), hi - lo + 1))
WinMax(s, lo, hi)  == Fix(MaxV(s, lo, hi))
WinMin(s, lo, hi)  == Fix(MinV(s, lo, hi))
\* sum of squared deviations from the window mean, in SCALE * SCALE units
RECURSIVE SumSqDev(_, _, _, _)
SumSqDev(s, m, lo, hi) ==
  IF lo > hi THEN 0
  ELSE IF lo = hi THEN (s[lo].v - m) * (s[lo].v - m)
  ELSE LET mid == (lo + hi) \div 2
       IN SumSqDev(s, m, lo, mid) + SumSqDev(s, m, mid + 1, hi)
\* sample standard deviation (ddof = 1)
WinStd(s, lo, hi) ==
  IF hi = lo THEN NaN
  ELSE Fix(ISqrt(RoundDiv(SumSqDev(s, WinMean(s, lo, hi).v, lo, hi), hi - lo)))
\* np.abs(x - x.mean()).mean()
RECURSIVE SumAbsDev(_, _, _, _)
SumAbsDev(s, m, lo, hi) ==
  IF lo > hi THEN 0
  ELSE IF lo = hi THEN AbsI(s[lo].v - m)
  ELSE LET mid == (lo + hi) \div 2
       IN SumAbsDev(s, m, lo, mid) + SumAbsDev(s, m, mid + 1, hi)
WinMad(s, lo, hi) ==
  Fix(RoundDiv(SumAbsDev(s, WinMean(s, lo, hi).v, lo, hi), hi - lo + 1))

RollingSum(s, w)  == Rolling(s, w, WinSum)
RollingMean(s, w) == Rolling(s, w, WinMean)
RollingMax(s, w)  == Rolling(s, w, WinMax)
RollingMin(s, w)  == Rolling(s, w, WinMin)
RollingStd(s, w)  == Rolling(s, w, WinStd)

\* ---- Series.ewm(alpha = an / ad, adjust, min_periods).mean(), ignore_na=False:
\* the recursion of pandas' ewm kernel, state (weighted, old_wt, nobs)
EwmStep(an, ad, adjust, prev, cur) ==
  LET obs  == NotNa(cur)
      nobs == prev.nobs + (IF obs THEN 1 ELSE 0)
      newW == IF adjust THEN SCALE ELSE RoundDiv(an * SCALE, ad)
  IN IF prev.first
     THEN [first |-> FALSE, w |-> cur, old |-> SCALE, nobs |-> nobs]
     ELSE IF NotNa(prev.w)
     THEN LET old1 == RoundDiv(prev.old * (ad - an), ad)
          IN IF obs
             THEN [first |-> FALSE,
                   w |-> IF prev.w # cur
                         THEN (IF IsNum(prev.w) /\ IsNum(cur)
                               THEN Fix(WAvg(prev.w.v, old1, cur.v, newW))
                               ELSE Add(prev.w, cur))
                         ELSE prev.w,
                   old |-> IF adjust THEN old1 + newW ELSE SCALE,
                   nobs |-> nobs]
             ELSE [first |-> FALSE, w |-> prev.w, old |-> old1, nobs |-> nobs]
     ELSE [first |-> FALSE, w |-> cur, old |-> prev.old, nobs |-> nobs]

Ewm(s, an, ad, adjust, minp) ==
  With([st \in {Scan(LAMBDA prev, x : EwmStep(an, ad, adjust, prev, x),
            [first |-> TRUE, w |-> NaN, old |-> SCALE, nobs |-> 0], s)} |->
  Tab(Len(st), LAMBDA i : IF st[i].nobs >= minp THEN st[i].w ELSE NaN)])

\* Series.ewm(span=n, adjust=False).mean(): alpha = 2 / (n + 1)
EwmSpan(s, span) == Ewm(s, 2, span + 1, FALSE, 0)
\* Series.ewm(com=c, min_periods=m).mean(): alpha = 1 / (1 + c), adjust=True
EwmCom(s, com, minp) == Ewm(s, 1, 1 + com, TRUE, minp)

\* pd.concat([a, b, c], axis=1).max(axis=1): NaN cells are skipped
RowMax3(a, b, c) ==
  Tab(Max2(Len(a), Max2(Len(b), Len(c))), LAMBDA i :
    With([xs \in {{x \in {a[i], b[i], c[i]} : NotNa(x)}} |->
    IF xs = {} THEN NaN ELSE CHOOSE m \in xs : \A x \in xs : Ge(m, x)]))

\* least-squares slope of rows lo..hi against x = 0, 1, ... (np.polyfit(x, y, 1)[0])
RECURSIVE SumXY(_, _, _, _)
SumXY(s, base, lo, hi) ==
  IF lo > hi THEN 0
  ELSE IF lo = hi THEN (lo - base) * s[lo].v
  ELSE LET mid == (lo + hi) \div 2
       IN SumXY(s, base, lo, mid) + SumXY(s, base, mid + 1, hi)
WinSlope(s, lo, hi) ==
  With([n \in {hi - lo + 1} |->
  With([sx \in {(n * (n - 1)) \div 2} |->
  With([sxx \in {((n - 1) * n * (2 * n - 1)) \div 6} |->
  Fix(RoundDiv(n * SumXY(s, lo, lo, hi) - sx * SumV(s, lo, hi), n * sxx - sx * sx))])])])

\* ------------------------------------------------------------- tables

Range(q) == {q[i] : i \in 1..Len(q)}
NRows(t) == Len(t.index)
HasCol(t, c) == c \in DOMAIN t.data
Col(t, c) == t.data[c]
\* df[c] = s: an existing column is overwritten in place, a new one is appended
SetCol(t, c, s) ==
  [t EXCEPT !.cols = IF HasCol(t, c) THEN t.cols ELSE Append(t.cols, c),
            !.data = (c :> s) @@ t.data]
\* df[c1] = s1; df[c2] = s2; ... for distinct names c1, c2, ...
SetCols(t, cols, vals) ==
  [t EXCEPT !.cols = t.cols \o SelectSeq(cols, LAMBDA c : ~HasCol(t, c)),
            !.data = [c \in Range(cols) |-> vals[CHOOSE i \in 1..Len(cols) : cols[i] = c]]
                     @@ t.data]
\* df[cols]
Select(t, cols) ==
  [t EXCEPT !.cols = cols, !.data = [c \in Range(cols) |-> t.data[c]] @@ <<>>]
\* df.drop(columns=[c for c in cols if c in df.columns])
DropCols(t, cols) ==
  Select(t, SelectSeq(t.cols, LAMBDA c : c \notin Range(cols)))
\* the rows (positions) of t that df.dropna() keeps: no NaN cell (an infinity is kept)
KeptRows(t) ==
  SelectSeq(Tab(NRows(t), LAMBDA i : i),
            LAMBDA i : \A c \in DOMAIN t.data : NotNa(t.data[c][i]))
\* df.iloc[rows]
TakeRows(t, rows) ==
  [t EXCEPT !.index = Tab(Len(rows), LAMBDA j : t.index[rows[j]]),
            !.data  = [c \in DOMAIN t.data |->
                         Tab(Len(rows), LAMBDA j : t.data[c][rows[j]])] @@ <<>>]
DropNa(t) == TakeRows(t, KeptRows(t))
\* df.iloc[:n]
HeadRows(t, n) == TakeRows(t, Tab(Min2(n, NRows(t)), LAMBDA i : i))

\* A reference to a DataFrame object: the table it holds now and the identity
\* of the object. Object 0 is the one the caller passed in.
Ref(t, obj) == [tbl |-> t, obj |-> obj]
\* df.copy(): a new object with the same contents
DfCopy(r) == Ref(r.tbl, r.obj + 1)
\* r[c] = s, in place
Put(r, c, s) == Ref(SetCol(r.tbl, c, s), r.obj)
PutAll(r, cols, vals) == Ref(SetCols(r.tbl, cols, vals), r.obj)
\* the first of the columns `need` that df lacks (df[c] raises KeyError), or ""
FirstMissing(t, need) ==
  IF \A i \in 1..Len(need) : HasCol(t, need[i]) THEN ""
  ELSE need[CHOOSE i \in 1..Len(need) :
              /\ ~HasCol(t, need[i])
              /\ \A j \in 1..(i - 1) : HasCol(t, need[j])]
\* What a call did: the exception it raised (NoExc if it returned), the object
\* it returned, and the state it left its argument object in.
NoExc == [type |-> "", arg |-> ""]
KeyError(c) == [type |-> "KeyError", arg |-> c]
ValueError(m, c) == [type |-> "ValueError", arg |-> m, col |-> c]
Ret(out, arg) == [exc |-> NoExc, out |-> out, arg |-> arg]
Raise(e, arg) == [exc |-> e, out |-> arg, arg |-> arg]
Raised(r) == r.exc.type # ""
\* the argument object after a function worked on `work`
ArgAfter(df, work) == IF work.obj = df.obj THEN work ELSE df

\* ------------------------------------------------------------- features/technical.py

\* the variant that guards the division: no value where the average loss is 0
GuardedRsi(prices, period) ==
  With([delta \in {Diff(prices)} |->
  With([gain \in {Map(LAMBDA d : IF Gt(d, Num(0)) THEN d ELSE Num(0), delta)} |->
  With([loss \in {Map(LAMBDA d : IF Lt(d, Num(0)) THEN Neg(d) ELSE Num(0), delta)} |->
  With([avg_gain \in {EwmCom(gain, period - 1, period)} |->
  With([avg_loss \in {EwmCom(loss, period - 1, period)} |->
  With([rs \in {Map(LAMBDA x : IF IsInf(x) THEN NaN ELSE x, SDiv(avg_gain, avg_loss))} |->
  CSub(Num(100), CDiv(Num(100), AddC(rs, Num(1))))])])])])])])

calculate_rsi(prices, period) ==
  With([delta \in {Diff(prices)} |->
  With([gain \in {Map(LAMBDA d : IF Gt(d, Num(0)) THEN d ELSE Num(0), delta)} |->
  With([loss \in {Map(LAMBDA d : IF Lt(d, Num(0)) THEN Neg(d) ELSE Num(0), delta)} |->
  With([avg_gain \in {EwmCom(gain, period - 1, period)} |->
  With([avg_loss \in {EwmCom(loss, period - 1, period)} |->
  With([rs \in {SDiv(avg_gain, avg_loss)} |->
  CSub(Num(100), CDiv(Num(100), AddC(rs, Num(1))))])])])])])])

calculate_macd(prices) ==
  With([ema_fast \in {EwmSpan(prices, 12)} |->
  With([ema_slow \in {EwmSpan(prices, 26)} |->
  With([macd_line \in {SSub(ema_fast, ema_slow)} |->
  With([signal_line \in {EwmSpan(macd_line, 9)} |->
  [macd |-> macd_line, signal |-> signal_line, hist |-> SSub(macd_line, signal_line)]])])])])

calculate_stochastic(high, low, close) ==
  With([lowest_low \in {RollingMin(low, 14)} |->
  With([highest_high \in {RollingMax(high, 14)} |->
  With([stoch_k \in {SDiv(MulC(SSub(close, lowest_low), Num(100)),
            SSub(highest_high, lowest_low))} |->
  [k |-> stoch_k, d |-> RollingMean(stoch_k, 3)]])])])

calculate_williams_r(high, low, close) ==
  With([highest_high \in {RollingMax(high, 14)} |->
  With([lowest_low \in {RollingMin(low, 14)} |->
  SDiv(MulC(SSub(highest_high, close), Num(-100)), SSub(highest_high, lowest_low))])])

calculate_cci(high, low, close) ==
  With([typical_price \in {DivC(SAdd(SAdd(high, low), close), Num(3))} |->
  With([sma \in {RollingMean(typical_price, 20)} |->
  With([mean_deviation \in {Rolling(typical_price, 20, WinMad)} |->
  SDiv(SSub(typical_price, sma), MulC(mean_deviation, Dec(15, 1000)))])])])

\* max(high - low, |high - close.shift()|, |low - close.shift()|), NaN skipped
TrueRange(high, low, close) ==
  RowMax3(SSub(high, low), SAbs(SSub(high, Shift(close, 1))),
          SAbs(SSub(low, Shift(close, 1))))

\* plus_dm and minus_dm of calculate_adx after lines 133-137
calculate_adx_dm(high, low) ==
  With([plus_dm0 \in {Diff(high)} |->
  With([minus_dm0 \in {Diff(low)} |->
  \* line 136 overwrites plus_dm; line 137 compares with the overwritten series
  With([plus_dm \in {Map2(LAMBDA p, m : IF Gt(p, m) /\ Gt(p, Num(0)) THEN p ELSE Num(0),
            plus_dm0, minus_dm0)} |->
  With([minus_dm \in {Map2(LAMBDA m, p : IF Gt(m, p) /\ Gt(m, Num(0)) THEN Neg(m) ELSE Num(0),
            minus_dm0, plus_dm)} |->
  [plus_dm |-> plus_dm, minus_dm |-> minus_dm]])])])])

calculate_adx(high, low, close) ==
  With([dm \in {calculate_adx_dm(high, low)} |->
  With([atr \in {EwmSpan(TrueRange(high, low, close), 14)} |->
  With([plus_di \in {MulC(SDiv(EwmSpan(dm.plus_dm, 14), atr), Num(100))} |->
  With([minus_di \in {MulC(SDiv(EwmSpan(dm.minus_dm, 14), atr), Num(100))} |->
  With([dx \in {SDiv(MulC(SAbs(SSub(plus_di, minus_di)), Num(100)),
            SAdd(plus_di, minus_di))} |->
  EwmSpan(dx, 14)])])])])])

generate_technical_features(df) ==
  With([r0 \in {DfCopy(df)} |->
  IF ~HasCol(df.tbl, "Close") THEN Raise(KeyError("Close"), ArgAfter(df, r0))
  ELSE
  With([close \in {Col(df.tbl, "Close")} |->
  With([m \in {calculate_macd(close)} |->
  With([r5 \in {PutAll(r0, <<"RSI_14", "RSI_7", "MACD", "MACD_Signal", "MACD_Histogram">>,
              <<calculate_rsi(close, 14), calculate_rsi(close, 7),
                m.macd, m.signal, m.hist>>)} |->
  IF FirstMissing(df.tbl, <<"High", "Low">>) # ""
  THEN Raise(KeyError(FirstMissing(df.tbl, <<"High", "Low">>)), ArgAfter(df, r5))
  ELSE
  With([high \in {Col(df.tbl, "High")} |->
  With([low \in {Col(df.tbl, "Low")} |->
  With([st \in {calculate_stochastic(high, low, close)} |->
  With([r10 \in {PutAll(r5, <<"Stochastic_K", "Stochastic_D", "Williams_R", "CCI", "ADX">>,
              <<st.k, st.d, calculate_williams_r(high, low, close),
                calculate_cci(high, low, close),
                calculate_adx(high, low, close)>>)} |->
  Ret(r10, ArgAfter(df, r10))])])])])])])])])

\* ------------------------------------------------------------- features/volume.py

calculate_volume_ratio(volume, period) == SDiv(volume, RollingMean(volume, period))

calculate_obv(close, volume) == CumSum(SMul(Map(Sign, Diff(close)), volume))

calculate_volume_trend(volume) == Rolling(volume, 20, WinSlope)

calculate_vwap(high, low, close, volume) ==
  With([typical_price \in {DivC(SAdd(SAdd(high, low), close), Num(3))} |->
  SDiv(CumSum(SMul(typical_price, volume)), CumSum(volume))])

calculate_volume_spike(volume) ==
  GtC(SDiv(volume, RollingMean(volume, 20)), Dec(25, 10))

generate_volume_features(df) ==
  With([r0 \in {DfCopy(df)} |->
  IF ~HasCol(df.tbl, "Volume") THEN Raise(KeyError("Volume"), ArgAfter(df, r0))
  ELSE
  With([volume \in {Col(df.tbl, "Volume")} |->
  With([r2 \in {PutAll(r0, <<"Volume_Ratio_10D", "Volume_Ratio_20D">>,
              <<calculate_volume_ratio(volume, 10),
                calculate_volume_ratio(volume, 20)>>)} |->
  IF ~HasCol(df.tbl, "Close") THEN Raise(KeyError("Close"), ArgAfter(df, r2))
  ELSE
  With([close \in {Col(df.tbl, "Close")} |->
  With([obv \in {calculate_obv(close, volume)} |->
  With([r5 \in {PutAll(r2, <<"OBV", "OBV_Change", "Volume_Trend">>,
              <<obv, MulC(PctChange(obv, 20), Num(100)),
                SDiv(calculate_volume_trend(volume), RollingMean(volume, 20))>>)} |->
  IF FirstMissing(df.tbl, <<"High", "Low">>) # ""
  THEN Raise(KeyError(FirstMissing(df.tbl, <<"High", "Low">>)), ArgAfter(df, r5))
  ELSE
  With([vwap \in {calculate_vwap(Col(df.tbl, "High"), Col(df.tbl, "Low"), close, volume)} |->
  With([r7 \in {PutAll(r5, <<"VWAP_Distance", "Volume_Spike">>,
              <<MulC(SDiv(SSub(close, vwap), vwap), Num(100)),
                calculate_volume_spike(volume)>>)} |->
  Ret(r7, ArgAfter(df, r7))])])])])])])])])

\* ------------------------------------------------------------- features/price.py

\* a variant of calculate_sma with min_periods=1
ExpandingMean(prices, period) ==
  Tab(Len(prices), LAMBDA i :
    IF AllNum(prices, Max2(1, i - period + 1), i)
    THEN WinMean(prices, Max2(1, i - period + 1), i) ELSE NaN)
calculate_sma(prices, period) == RollingMean(prices, period)

calculate_price_vs_sma(prices, period) ==
  With([sma \in {calculate_sma(prices, period)} |->
  MulC(SDiv(SSub(prices, sma), sma), Num(100))])

calculate_52w_high_low(t) ==
  [high |-> RollingMax(Col(t, "High"), 252), low |-> RollingMin(Col(t, "Low"), 252)]

calculate_price_position(close, high_52w, low_52w) ==
  SDiv(SSub(close, low_52w), SSub(high_52w, low_52w))

calculate_gap(open_price, prev_close) ==
  MulC(SDiv(SSub(open_price, prev_close), prev_close), Num(100))

calculate_intraday_range(open_price, high, low) ==
  MulC(SDiv(SSub(high, low), open_price), Num(100))

generate_price_features(df) ==
  With([r0 \in {DfCopy(df)} |->
  IF ~HasCol(df.tbl, "Close") THEN Raise(KeyError("Close"), ArgAfter(df, r0))
  ELSE
  With([close \in {Col(df.tbl, "Close")} |->
  With([r3 \in {PutAll(r0, <<"Price_vs_SMA20", "Price_vs_SMA50", "Price_vs_SMA200">>,
              <<calculate_price_vs_sma(close, 20), calculate_price_vs_sma(close, 50),
                calculate_price_vs_sma(close, 200)>>)} |->
  IF FirstMissing(df.tbl, <<"High", "Low">>) # ""
  THEN Raise(KeyError(FirstMissing(df.tbl, <<"High", "Low">>)), ArgAfter(df, r3))
  ELSE
  With([hl \in {calculate_52w_high_low(df.tbl)} |->
  With([r6 \in {PutAll(r3, <<"Distance_52W_High", "Distance_52W_Low", "Price_Position">>,
              <<MulC(SDiv(SSub(hl.high, close), hl.high), Num(100)),
                MulC(SDiv(SSub(close, hl.low), hl.low), Num(100)),
                calculate_price_position(close, hl.high, hl.low)>>)} |->
  IF ~HasCol(df.tbl, "Open") THEN Raise(KeyError("Open"), ArgAfter(df, r6))
  ELSE
  With([r8 \in {PutAll(r6, <<"Gap_Up_Pct", "Intraday_Range">>,
              <<calculate_gap(Col(df.tbl, "Open"), Shift(close, 1)),
                calculate_intraday_range(Col(df.tbl, "Open"),
                                         Col(df.tbl, "High"),
                                         Col(df.tbl, "Low"))>>)} |->
  Ret(r8, ArgAfter(df, r8))])])])])])])

\* ------------------------------------------------------------- features/momentum.py

calculate_returns(prices, period) == MulC(PctChange(prices, period), Num(100))

calculate_momentum_score(t) ==
  With([ret_1d \in {MulC(PctChange(Col(t, "Close"), 1), Num(100))} |->
  With([ret_5d \in {MulC(PctChange(Col(t, "Close"), 5), Num(100))} |->
  With([ret_10d \in {MulC(PctChange(Col(t, "Close"), 10), Num(100))} |->
  SAdd(SAdd(MulC(ret_1d, Dec(4, 10)), MulC(ret_5d, Dec(35, 100))),
       MulC(ret_10d, Dec(25, 100)))])])])

calculate_acceleration(prices) ==
  MulC(SSub(PctChange(prices, 5), PctChange(prices, 20)), Num(100))

generate_momentum_features(df) ==
  With([r0 \in {DfCopy(df)} |->
  IF ~HasCol(df.tbl, "Close") THEN Raise(KeyError("Close"), ArgAfter(df, r0))
  ELSE
  With([close \in {Col(df.tbl, "Close")} |->
  With([r5 \in {PutAll(r0, <<"Return_1D", "Return_5D", "Return_10D", "Momentum_Score",
                    "Acceleration">>,
              <<calculate_returns(close, 1), calculate_returns(close, 5),
                calculate_returns(close, 10), calculate_momentum_score(df.tbl),
                calculate_acceleration(close)>>)} |->
  Ret(r5, ArgAfter(df, r5))])])])

\* ------------------------------------------------------------- features/volatility.py

calculate_atr(high, low, close) == EwmSpan(TrueRange(high, low, close), 14)

calculate_bollinger_bands(prices) ==
  With([middle \in {RollingMean(prices, 20)} |->
  With([std \in {RollingStd(prices, 20)} |->
  [upper  |-> SAdd(middle, MulC(std, Num(2))),
   middle |-> middle,
   lower  |-> SSub(middle, MulC(std, Num(2)))]])])

calculate_bollinger_width(upper, lower, middle) ==
  MulC(SDiv(SSub(upper, lower), middle), Num(100))

calculate_bollinger_position(prices, upper, lower) ==
  SDiv(SSub(prices, lower), SSub(upper, lower))

calculate_historical_volatility(prices) ==
  With([log_returns \in {Map(Log, SDiv(prices, Shift(prices, 1)))} |->
  MulC(MulC(RollingStd(log_returns, 20), Sqrt(Num(252))), Num(100))])

generate_volatility_features(df) ==
  With([r0 \in {DfCopy(df)} |->
  IF FirstMissing(df.tbl, <<"High", "Low", "Close">>) # ""
  THEN Raise(KeyError(FirstMissing(df.tbl, <<"High", "Low", "Close">>)), ArgAfter(df, r0))
  ELSE
  With([close \in {Col(df.tbl, "Close")} |->
  With([atr \in {calculate_atr(Col(df.tbl, "High"), Col(df.tbl, "Low"), close)} |->
  With([bb \in {calculate_bollinger_bands(close)} |->
  With([r4 \in {PutAll(r0, <<"ATR_14", "Bollinger_Width", "Bollinger_Position",
                    "Historical_Vol_20">>,
              <<MulC(SDiv(atr, close), Num(100)),
                calculate_bollinger_width(bb.upper, bb.lower, bb.middle),
                calculate_bollinger_position(close, bb.upper, bb.lower),
                calculate_historical_volatility(close)>>)} |->
  Ret(r4, ArgAfter(df, r4))])])])])])

\* ------------------------------------------------------------- features/pipeline.py

\* the class attribute FeaturePipeline.FEATURE_COLUMNS as the class body builds it
FEATURE_COLUMNS ==
  << "RSI_14", "RSI_7", "MACD", "MACD_Signal", "MACD_Histogram",
     "Stochastic_K", "Stochastic_D", "Williams_R", "CCI", "ADX",
     "Volume_Ratio_10D", "Volume_Ratio_20D", "OBV_Change",
     "Volume_Trend", "VWAP_Distance", "Volume_Spike",
     "Price_vs_SMA20", "Price_vs_SMA50", "Price_vs_SMA200",
     "Distance_52W_High", "Distance_52W_Low", "Price_Position",
     "Gap_Up_Pct", "Intraday_Range",
     "Return_1D", "Return_5D", "Return_10D", "Momentum_Score", "Acceleration",
     "ATR_14", "Bollinger_Width", "Bollinger_Position", "Historical_Vol_20",
     "Trend_Strength", "Reversal_Signal", "Breakout_Score" >>

\* FeaturePipeline.__init__
min_data_points == 252

Zeros(n) == Tab(n, LAMBDA i : Num(0))
\* the variant that leaves the sum as it is
AddNever(t, c, acc, term) == acc
\* acc += term, when column c is in df.columns
AddIf(t, c, acc, term) == IF HasCol(t, c) THEN SAdd(acc, term) ELSE acc

_calculate_derived_features(df) ==
  With([r0 \in {DfCopy(df)} |->
  With([t \in {df.tbl} |->
  With([z \in {Zeros(NRows(t))} |->
  With([trend_strength \in {AddIf(t, "Price_vs_SMA200",
         AddIf(t, "Price_vs_SMA50",
           AddIf(t, "Price_vs_SMA20", z, Map(Sign, Col(t, "Price_vs_SMA20"))),
           Map(Sign, Col(t, "Price_vs_SMA50"))),
         Map(Sign, Col(t, "Price_vs_SMA200")))} |->
  With([reversal_signal \in {AddIf(t, "Price_Position",
         AddIf(t, "Volume_Spike",
           AddIf(t, "RSI_14",
             AddIf(t, "RSI_14", z, MulC(LtC(Col(t, "RSI_14"), Num(30)), Num(2))),
             MulC(LtC(Col(t, "RSI_14"), Num(20)), Num(1))),
           Col(t, "Volume_Spike")),
         MulC(LtC(Col(t, "Price_Position"), Dec(2, 10)), Num(1)))} |->
  With([breakout_score \in {AddIf(t, "MACD_Histogram",
         AddIf(t, "RSI_14",
           AddIf(t, "Volume_Ratio_10D",
             AddIf(t, "Distance_52W_High", z,
                   MulC(LtC(Col(t, "Distance_52W_High"), Num(5)), Num(2))),
             MulC(GtC(Col(t, "Volume_Ratio_10D"), Dec(15, 10)), Num(1))),
           MulC(SAnd(GtC(Col(t, "RSI_14"), Num(55)), LtC(Col(t, "RSI_14"), Num(75))),
                Num(1))),
         MulC(GtC(Col(t, "MACD_Histogram"), Num(0)), Num(1)))} |->
  With([r3 \in {PutAll(r0, <<"Trend_Strength", "Reversal_Signal", "Breakout_Score">>,
              <<trend_strength, reversal_signal, breakout_score>>)} |->
  Ret(r3, ArgAfter(df, r3))])])])])])])])

\* Progress of a function body: the exception raised so far, the object the
\* local variable `result` refers to, and the state of the caller's object.
Body(exc, cur, caller) == [exc |-> exc, cur |-> cur, caller |-> caller]
\* result = F(result)
Step(p, F(_)) ==
  IF p.exc.type # "" THEN p
  ELSE With([t \in {F(p.cur)} |->
       Body(t.exc, t.out,
            IF t.out.obj = p.caller.obj THEN t.out
            ELSE IF p.cur.obj = p.caller.obj THEN t.arg
            ELSE p.caller)])

\* the next-day label of generate_features (lines 152-153)
PipelineTarget(close) ==
  Map(LAMBDA r : Bool(Ge(r, Dec(5, 100))), SubC(SDiv(Shift(close, -1), close), Num(1)))

\* result['Target'] = ..., reading df['Close'] of the caller's object
AddTarget(p) ==
  IF p.exc.type # "" THEN p
  ELSE IF ~HasCol(p.caller.tbl, "Close") THEN Body(KeyError("Close"), p.cur, p.caller)
  ELSE With([r \in {Put(p.cur, "Target", PipelineTarget(Col(p.caller.tbl, "Close")))} |->
       Body(NoExc, r, IF r.obj = p.caller.obj THEN r ELSE p.caller)])

EmptyTable == [cols |-> <<>>, index |-> <<>>, data |-> <<>>, dates |-> FALSE]
\* What generate_features hands back: None or a DataFrame, the log record it
\* wrote, and the state of the caller's table afterwards.
GfNone(level, caller) ==
  [kind |-> "None", tbl |-> EmptyTable, log |-> level, caller |-> caller.tbl]
GfTable(t, caller) ==
  [kind |-> "DataFrame", tbl |-> t, log |-> "info", caller |-> caller.tbl]

\* lines 155-167: select the schema columns present, drop the rows with a NaN
SelectAndDrop(p, include_target, feature_columns) ==
  With([feature_cols \in {SelectSeq(feature_columns, LAMBDA c : HasCol(p.cur.tbl, c))
         \o (IF include_target THEN <<"Target">> ELSE <<>>)} |->
  GfTable(DropNa(Select(p.cur.tbl, feature_cols)), p.caller)])

\* lines 123-147 of generate_features: the length test, the copy and the six
\* feature steps; a table that is too short is left as it is
FeatureSteps(df) ==
  IF NRows(df.tbl) < min_data_points THEN Body(NoExc, df, df)
  ELSE
  With([p1 \in {Step(Body(NoExc, DfCopy(df), df), generate_technical_features)} |->
  With([p2 \in {Step(p1, generate_volume_features)} |->
  With([p3 \in {Step(p2, generate_price_features)} |->
  With([p4 \in {Step(p3, generate_momentum_features)} |->
  With([p5 \in {Step(p4, generate_volatility_features)} |->
  Step(p5, _calculate_derived_features)])])])])])
\* what generate_features hands back after the steps p6: None for a short
\* table (lines 123-125), else the label, the selection and the rows without
\* NaN (lines 149-167), or None for whatever was raised (lines 169-171)
Handed(df, p6, include_target, feature_columns) ==
  IF NRows(df.tbl) < min_data_points THEN GfNone("warning", df)
  ELSE
  With([p7 \in {IF include_target THEN AddTarget(p6) ELSE p6} |->
  IF p7.exc.type # "" THEN GfNone("error", p7.caller)
  ELSE SelectAndDrop(p7, include_target, feature_columns)])

generate_features(df, include_target, feature_columns) ==
  Handed(df, FeatureSteps(df), include_target, feature_columns)

\* A reference to a list object; object 0 is the class attribute FEATURE_COLUMNS.
ListRef(items, obj) == [items |-> items, obj |-> obj]
\* list.copy()
ListCopy(l) == ListRef(l.items, l.obj + 1)
\* a variant of get_feature_names that hands out the class attribute itself
SameList(feature_columns) == ListRef(feature_columns, 0)
\* FeaturePipeline.get_feature_names: self.FEATURE_COLUMNS.copy()
get_feature_names(feature_columns) == ListCopy(ListRef(feature_columns, 0))

\* FeaturePipeline.validate_features: the value returned, the level of the log
\* record written, the message that opens it and the list it carries.  The
\* first list that is not empty ends the call.
Verdict(valid, what, cols) ==
  [valid |-> valid, log |-> IF valid THEN "" ELSE "warning", what |-> what, cols |-> cols]
validate_features(t, feature_columns) ==
  With([missing_cols \in {SelectSeq(feature_columns, LAMBDA c : ~HasCol(t, c))} |->
  IF missing_cols # <<>> THEN Verdict(FALSE, "Missing features", missing_cols)
  ELSE
  With([inf_cols \in {SelectSeq(t.cols, LAMBDA c :
                        \E i \in 1..NRows(t) : IsInf(t.data[c][i]))} |->
  IF inf_cols # <<>> THEN Verdict(FALSE, "Infinite values in", inf_cols)
  ELSE
  With([nan_cols \in {SelectSeq(t.cols, LAMBDA c :
                        \E i \in 1..NRows(t) : IsNaN(t.data[c][i]))} |->
  IF nan_cols # <<>> THEN Verdict(FALSE, "NaN values in", nan_cols)
  ELSE Verdict(TRUE, "", <<>>)])])])

\* ------------------------------------------------- features/technical_indicators.py

\* str.lower() on the column names that occur; any other name is lower-case already
LowerName ==
  [c \in {"Open", "High", "Low", "Close", "Volume", "Date"} |->
     CASE c = "Open" -> "open" [] c = "High" -> "high" [] c = "Low" -> "low"
       [] c = "Close" -> "close" [] c = "Volume" -> "volume" [] OTHER -> "date"]
  @@ [c \in {"OPEN", "HIGH", "LOW", "CLOSE", "VOLUME"} |->
     CASE c = "OPEN" -> "open" [] c = "HIGH" -> "high" [] c = "LOW" -> "low"
       [] c = "CLOSE" -> "close" [] OTHER -> "volume"]
Lower(c) == IF c \in DOMAIN LowerName THEN LowerName[c] ELSE c

\* a variant of LowerColumns that leaves the names as the caller wrote them
KeepColumns(r) == r
\* df.columns = [c.lower() for c in df.columns], in place
LowerColumns(r) ==
  Ref([r.tbl EXCEPT
         !.cols = Tab(Len(r.tbl.cols), LAMBDA i : Lower(r.tbl.cols[i])),
         !.data = [c \in {Lower(x) : x \in DOMAIN r.tbl.data} |->
                     r.tbl.data[CHOOSE x \in DOMAIN r.tbl.data : Lower(x) = c]] @@ <<>>],
      r.obj)

required == <<"open", "high", "low", "close", "volume">>
MissingColumn(c) == ValueError("Missing required column: ", c)

\* TechnicalIndicators._validate_data on self.df
TI_validate_data(self_df) ==
  With([low \in {LowerColumns(self_df)} |->
  IF FirstMissing(low.tbl, required) # ""
  THEN Raise(MissingColumn(FirstMissing(low.tbl, required)), low)
  ELSE Ret(low, low)])

\* a variant of TI_init that keeps the caller's table as self.df
TI_shared(df) ==
  With([v \in {TI_validate_data(df)} |->
  [exc |-> v.exc, out |-> v.out, arg |-> ArgAfter(df, v.out)]])
\* TechnicalIndicators.__init__: out is self.df of the new object
TI_init(df) ==
  With([v \in {TI_validate_data(DfCopy(df))} |->
  [exc |-> v.exc, out |-> v.out, arg |-> ArgAfter(df, v.out)]])

\* ---- trend
\* a variant of sma over a window that ends one bar ahead
CentredMean(t, period, column) == Shift(RollingMean(Col(t, column), period), -1)
sma(t, period, column) == RollingMean(Col(t, column), period)
ema(t, period, column) == EwmSpan(Col(t, column), period)

macd(t) ==
  With([macd_line \in {SSub(ema(t, 12, "close"), ema(t, 26, "close"))} |->
  With([signal_line \in {EwmSpan(macd_line, 9)} |->
  [macd |-> macd_line, signal |-> signal_line,
   histogram |-> SSub(macd_line, signal_line)]])])

\* the index of self.df is the RangeIndex 0..n-1 that pd.Series(ndarray) gets
IsRangeIndex(t) == ~t.dates /\ t.index = Tab(NRows(t), LAMBDA i : i - 1)
AllNaN(n) == Tab(n, LAMBDA i : NaN)

\* rolling-mean true range of atr(period)
atr(t, period) ==
  RollingMean(TrueRange(Col(t, "high"), Col(t, "low"), Col(t, "close")), period)

\* adx(): the rows of the result at the labels of self.df.  pd.Series(plus_dm)
\* carries a fresh RangeIndex, so its quotient by atr is defined only at the
\* labels the two indexes share.
\* plus_dm and minus_dm of adx() (lines 113-117)
adx_dm(t) ==
  With([high \in {Col(t, "high")} |->
  With([low \in {Col(t, "low")} |->
  With([up_move \in {SSub(high, Shift(high, 1))} |->
  With([down_move \in {SSub(Shift(low, 1), low)} |->
  [plus_dm  |-> Map2(LAMBDA u, d : IF Gt(u, d) /\ Gt(u, Num(0)) THEN u ELSE Num(0),
                     up_move, down_move),
   minus_dm |-> Map2(LAMBDA d, u : IF Gt(d, u) /\ Gt(d, Num(0)) THEN d ELSE Num(0),
                     down_move, up_move)]])])])])

adx(t) ==
  With([dm \in {adx_dm(t)} |->
  With([atr14 \in {atr(t, 14)} |->
  With([plus_di \in {SDiv(MulC(RollingMean(dm.plus_dm, 14), Num(100)), atr14)} |->
  With([minus_di \in {SDiv(MulC(RollingMean(dm.minus_dm, 14), Num(100)), atr14)} |->
  With([dx \in {SDiv(MulC(SAbs(SSub(plus_di, minus_di)), Num(100)),
            SAdd(plus_di, minus_di))} |->
  IF IsRangeIndex(t)
  THEN [adx |-> RollingMean(dx, 14), plus_di |-> plus_di, minus_di |-> minus_di]
  ELSE [adx |-> AllNaN(NRows(t)), plus_di |-> AllNaN(NRows(t)),
        minus_di |-> AllNaN(NRows(t))]])])])])])

\* Python's min(a, b) and max(a, b) of two floats: a, unless b compares
\* smaller (greater); a comparison with NaN is false
PyMin(a, b) == IF Lt(b, a) THEN b ELSE a
PyMax(a, b) == IF Gt(b, a) THEN b ELSE a

\* supertrend(period, multiplier): the bands, and the loop of lines 142-155
\* over rows period..n-1.  Both result series start as NaN (a Series built
\* from an index alone holds NaN, as floats, whatever dtype is asked for).
supertrend_bands(t, period, multiplier) ==
  With([hl2 \in {DivC(SAdd(Col(t, "high"), Col(t, "low")), Num(2))} |->
  With([band \in {MulC(atr(t, period), multiplier)} |->
  [upper_band |-> SAdd(hl2, band), lower_band |-> SSub(hl2, band)]])])
supertrend(t, period, multiplier) ==
  With([close \in {Col(t, "close")} |->
  With([b \in {supertrend_bands(t, period, multiplier)} |->
  With([rows \in {Tab(NRows(t), LAMBDA i : i)} |->
  With([st \in {Scan(LAMBDA prev, i :
         IF i - 1 < period THEN [supertrend |-> NaN, direction |-> NaN]
         ELSE IF Gt(close[i], b.upper_band[i - 1])
           THEN [supertrend |-> b.lower_band[i],
                 direction |-> Num(1)]
         ELSE IF Lt(close[i], b.lower_band[i - 1])
           THEN [supertrend |-> b.upper_band[i],
                 direction |-> Num(-1)]
         ELSE IF prev.direction = Num(1)
           THEN [supertrend |-> PyMax(b.lower_band[i], prev.supertrend),
                 direction |-> Num(1)]
         ELSE [supertrend |-> PyMin(b.upper_band[i], prev.supertrend),
               direction |-> Num(-1)],
       [supertrend |-> NaN, direction |-> NaN], rows)} |->
  [supertrend |-> Tab(NRows(t), LAMBDA i : st[i].supertrend),
   direction  |-> Tab(NRows(t), LAMBDA i : st[i].direction)]])])])])

\* parabolic_sar(af_start=0.02, af_step=0.02, af_max=0.2)
af_start == Dec(2, 100)
af_step == Dec(2, 100)
af_max == Dec(2, 10)
\* the variants of a flip that keep the factor and the stop they find
AfKept(af) == af
SarKept(ep, psar) == psar
\* lines 182-185 and 195-198: a flip puts the stop at the extreme point and
\* the factor back at af_start
AfAfterFlip(af) == af_start
SarAfterFlip(ep, psar) == ep
\* one pass of the loop body (lines 174-198) for row i, from the locals
\* psar[i-1], af, ep and trend the pass before left
SarStep(prev, i, high, low) ==
  IF prev.trend = 1 THEN
    With([sar \in {PyMin(PyMin(Add(prev.psar, Mul(prev.af, Sub(prev.ep, prev.psar))),
                              low[i - 1]), low[i - 2])} |->
    With([extreme \in {Gt(high[i], prev.ep)} |->
    With([ep \in {IF extreme THEN high[i] ELSE prev.ep} |->
    With([af \in {IF extreme THEN PyMin(Add(prev.af, af_step), af_max) ELSE prev.af} |->
    IF Lt(low[i], sar)
    THEN [psar |-> SarAfterFlip(ep, sar), af |-> AfAfterFlip(af), ep |-> low[i],
          trend |-> -1]
    ELSE [psar |-> sar, af |-> af, ep |-> ep, trend |-> 1]])])])])
  ELSE
    With([sar \in {PyMax(PyMax(Sub(prev.psar, Mul(prev.af, Sub(prev.psar, prev.ep))),
                              high[i - 1]), high[i - 2])} |->
    With([extreme \in {Lt(low[i], prev.ep)} |->
    With([ep \in {IF extreme THEN low[i] ELSE prev.ep} |->
    With([af \in {IF extreme THEN PyMin(Add(prev.af, af_step), af_max) ELSE prev.af} |->
    IF Gt(high[i], sar)
    THEN [psar |-> SarAfterFlip(ep, sar), af |-> AfAfterFlip(af), ep |-> high[i],
          trend |-> 1]
    ELSE [psar |-> sar, af |-> af, ep |-> ep, trend |-> -1]])])])])
\* the locals after each row: rows 0 and 1 keep the close and the start values
parabolic_sar_loop(t) ==
  With([high \in {Col(t, "high")} |->
  With([low \in {Col(t, "low")} |->
  With([close \in {Col(t, "close")} |->
  Scan(LAMBDA prev, i :
         IF i - 1 < 2
         THEN [psar |-> close[i], af |-> af_start, ep |-> low[1], trend |-> 1]
         ELSE SarStep(prev, i, high, low),
       [psar |-> NaN, af |-> af_start, ep |-> NaN, trend |-> 1],
       Tab(NRows(t), LAMBDA i : i))])])])
parabolic_sar(t) ==
  With([st \in {parabolic_sar_loop(t)} |-> Tab(NRows(t), LAMBDA i : st[i].psar)])

\* (rolling max of high + rolling min of low) / 2
MidRange(t, w) ==
  DivC(SAdd(RollingMax(Col(t, "high"), w), RollingMin(Col(t, "low"), w)), Num(2))

ichimoku(t) ==
  With([tenkan_sen \in {MidRange(t, 9)} |->
  With([kijun_sen \in {MidRange(t, 26)} |->
  [tenkan_sen    |-> tenkan_sen,
   kijun_sen     |-> kijun_sen,
   senkou_span_a |-> Shift(DivC(SAdd(tenkan_sen, kijun_sen), Num(2)), 26),
   senkou_span_b |-> Shift(MidRange(t, 52), 26),
   chikou_span   |-> Shift(Col(t, "close"), -26)]])])

\* ---- momentum
rsi(t, period) ==
  With([delta \in {Diff(Col(t, "close"))} |->
  With([gain \in {Map(LAMBDA d : IF Gt(d, Num(0)) THEN d ELSE Num(0), delta)} |->
  With([loss \in {Map(LAMBDA d : Neg(IF Lt(d, Num(0)) THEN d ELSE Num(0)), delta)} |->
  With([rs \in {SDiv(RollingMean(gain, period), RollingMean(loss, period))} |->
  CSub(Num(100), CDiv(Num(100), AddC(rs, Num(1))))])])])])

stochastic(t) ==
  With([low_min \in {RollingMin(Col(t, "low"), 14)} |->
  With([high_max \in {RollingMax(Col(t, "high"), 14)} |->
  With([raw_k \in {SDiv(MulC(SSub(Col(t, "close"), low_min), Num(100)),
            SSub(high_max, low_min))} |->
  With([stoch_k \in {RollingMean(raw_k, 3)} |->
  [stoch_k |-> stoch_k, stoch_d |-> RollingMean(stoch_k, 3)]])])])])

williams_r(t) ==
  With([high_max \in {RollingMax(Col(t, "high"), 14)} |->
  With([low_min \in {RollingMin(Col(t, "low"), 14)} |->
  SDiv(MulC(SSub(high_max, Col(t, "close")), Num(-100)), SSub(high_max, low_min))])])

cci(t) ==
  With([tp \in {DivC(SAdd(SAdd(Col(t, "high"), Col(t, "low")), Col(t, "close")), Num(3))} |->
  SDiv(SSub(tp, RollingMean(tp, 20)), MulC(Rolling(tp, 20, WinMad), Dec(15, 1000)))])

roc(t) ==
  With([prev \in {Shift(Col(t, "close"), 12)} |->
  SDiv(MulC(SSub(Col(t, "close"), prev), Num(100)), prev)])

momentum(t) == SSub(Col(t, "close"), Shift(Col(t, "close"), 10))

tsi(t) ==
  With([price_change \in {Diff(Col(t, "close"))} |->
  With([smooth2 \in {EwmSpan(EwmSpan(price_change, 25), 13)} |->
  With([abs_smooth2 \in {EwmSpan(EwmSpan(SAbs(price_change), 25), 13)} |->
  SDiv(MulC(smooth2, Num(100)), abs_smooth2)])])])

awesome_oscillator(t) ==
  With([midpoint \in {DivC(SAdd(Col(t, "high"), Col(t, "low")), Num(2))} |->
  SSub(RollingMean(midpoint, 5), RollingMean(midpoint, 34))])

\* ---- volatility
bollinger_bands(t) ==
  With([mid \in {sma(t, 20, "close")} |->
  With([std \in {RollingStd(Col(t, "close"), 20)} |->
  With([upper \in {SAdd(mid, MulC(std, Num(2)))} |->
  With([lower \in {SSub(mid, MulC(std, Num(2)))} |->
  [bb_upper     |-> upper,
   bb_middle    |-> mid,
   bb_lower     |-> lower,
   bb_bandwidth |-> MulC(SDiv(SSub(upper, lower), mid), Num(100)),
   bb_percent_b |-> SDiv(SSub(Col(t, "close"), lower), SSub(upper, lower))]])])])])

historical_volatility(t) ==
  With([log_return \in {Map(Log, SDiv(Col(t, "close"), Shift(Col(t, "close"), 1)))} |->
  MulC(MulC(RollingStd(log_return, 20), Sqrt(Num(252))), Num(100))])

\* ---- volume
\* obv(): the loop of lines 438-444 over rows 1..n-1, from obv[0] = volume[0]
\* the variant that sums the signed volumes from zero
SignedVolumeSum(t) ==
  CumSum(SMul(Map(Sign, Diff(Col(t, "close"))), Col(t, "volume")))

obv(t) ==
  With([close \in {Col(t, "close")} |->
  With([volume \in {Col(t, "volume")} |->
  With([rows \in {Tab(NRows(t), LAMBDA i : i)} |->
  Scan(LAMBDA prev, i :
         IF i = 1 THEN volume[1]
         ELSE IF Gt(close[i], close[i - 1]) THEN Add(prev, volume[i])
         ELSE IF Lt(close[i], close[i - 1]) THEN Sub(prev, volume[i])
         ELSE prev,
       NaN, rows)])])])

FillNa0(s) == Map(LAMBDA x : IF IsNaN(x) THEN Num(0) ELSE x, s)

\* ((close - low) - (high - close)) / (high - low)
CloseLocation(t) ==
  SDiv(SSub(SSub(Col(t, "close"), Col(t, "low")), SSub(Col(t, "high"), Col(t, "close"))),
       SSub(Col(t, "high"), Col(t, "low")))

cmf(t) ==
  With([mfv \in {FillNa0(SMul(CloseLocation(t), Col(t, "volume")))} |->
  SDiv(RollingSum(mfv, 20), RollingSum(Col(t, "volume"), 20))])

ad_line(t) ==
  CumSum(SMul(FillNa0(CloseLocation(t)), Col(t, "volume")))

mfi(t) ==
  With([tp \in {DivC(SAdd(SAdd(Col(t, "high"), Col(t, "low")), Col(t, "close")), Num(3))} |->
  With([mf \in {SMul(tp, Col(t, "volume"))} |->
  With([up \in {SGt(tp, Shift(tp, 1))} |->
  With([dn \in {SLt(tp, Shift(tp, 1))} |->
  With([positive_mf \in {Map2(LAMBDA c, m : IF c = Num(1) THEN m ELSE Num(0), up, mf)} |->
  With([negative_mf \in {Map2(LAMBDA c, m : IF c = Num(1) THEN m ELSE Num(0), dn, mf)} |->
  With([mfr \in {SDiv(RollingSum(positive_mf, 14), RollingSum(negative_mf, 14))} |->
  CSub(Num(100), CDiv(Num(100), AddC(mfr, Num(1))))])])])])])])])

force_index(t) ==
  EwmSpan(SMul(SSub(Col(t, "close"), Shift(Col(t, "close"), 1)), Col(t, "volume")), 13)

\* ---- trend strength
\* numpy argmax / argmin of rows lo..hi as an offset from lo: the first NaN if
\* there is one, else the first extreme row
RECURSIVE FirstAt(_, _, _, _)
FirstAt(P(_), lo, hi, none) ==
  IF lo > hi THEN none
  ELSE IF lo = hi THEN (IF P(lo) THEN lo ELSE none)
  ELSE With([mid \in {(lo + hi) \div 2} |->
       With([l \in {FirstAt(P, lo, mid, none)} |->
       IF l # none THEN l ELSE FirstAt(P, mid + 1, hi, none)])])
ArgExt(s, lo, hi, sign) ==
  With([nan \in {FirstAt(LAMBDA i : IsNaN(s[i]), lo, hi, 0)} |->
  IF nan # 0 THEN nan - lo
  ELSE FirstAt(LAMBDA i : \A j \in lo..hi : Ge(Fix(sign * Sgn(Sub(s[i], s[j]))), Num(0)),
               lo, hi, 0) - lo])

aroon(t) ==
  With([n \in {NRows(t)} |->
  With([up \in {Tab(n, LAMBDA i : IF i - 1 < 25 THEN NaN
                         ELSE Dec(100 * ArgExt(Col(t, "high"), i - 25, i, 1), 25))} |->
  With([dn \in {Tab(n, LAMBDA i : IF i - 1 < 25 THEN NaN
                         ELSE Dec(100 * ArgExt(Col(t, "low"), i - 25, i, -1), 25))} |->
  [aroon_up |-> up, aroon_down |-> dn, aroon_osc |-> SSub(up, dn)]])])])

choppiness_index(t) ==
  With([atr_sum \in {RollingSum(atr(t, 1), 14)} |->
  With([high_max \in {RollingMax(Col(t, "high"), 14)} |->
  With([low_min \in {RollingMin(Col(t, "low"), 14)} |->
  DivC(MulC(Map(Log10, SDiv(atr_sum, SSub(high_max, low_min))), Num(100)),
       Log10(Num(14)))])])])

elder_ray(t) ==
  [bull_power |-> SSub(Col(t, "high"), ema(t, 13, "close")),
   bear_power |-> SSub(Col(t, "low"), ema(t, 13, "close"))]

\* --------------------------------- features/candlestick_patterns.py
\* a < b * (n / d) and a > b * (n / d) for a decimal constant n / d, exactly
LtK(a, b, n, d) ==
  IF IsNum(a) /\ IsNum(b) THEN a.v * d < b.v * n ELSE Lt(a, Mul(b, Dec(n, d)))
GtK(a, b, n, d) ==
  IF IsNum(a) /\ IsNum(b) THEN a.v * d > b.v * n ELSE Gt(a, Mul(b, Dec(n, d)))

\* df[['open', 'close']].max(axis=1) / .min(axis=1): NaN cells are skipped
RowMax2(a, b) ==
  Map2(LAMBDA x, y : IF IsNaN(x) THEN y ELSE IF IsNaN(y) THEN x
                     ELSE IF Ge(x, y) THEN x ELSE y, a, b)
RowMin2(a, b) ==
  Map2(LAMBDA x, y : IF IsNaN(x) THEN y ELSE IF IsNaN(y) THEN x
                     ELSE IF Le(x, y) THEN x ELSE y, a, b)

\* the basic candle metrics of lines 34-45, as one record of series
CandleMetrics(t) ==
  With([o \in {Col(t, "open")} |->
  With([h \in {Col(t, "high")} |->
  With([l \in {Col(t, "low")} |->
  With([c \in {Col(t, "close")} |->
  With([ba \in {SAbs(SSub(c, o))} |->
  With([rg \in {SSub(h, l)} |->
  [o |-> o, h |-> h, l |-> l, c |-> c,
   body_abs     |-> ba,
   range        |-> rg,
   upper_shadow |-> SSub(h, RowMax2(o, c)),
   lower_shadow |-> SSub(RowMin2(o, c), l),
   avg_body     |-> RollingMean(ba, 20),
   avg_range    |-> RollingMean(rg, 20)]])])])])])])

\* s.shift(k) at row i
V(s, i, k) == IF i - k >= 1 THEN s[i - k] ELSE NaN
\* is_bullish.shift(k) / is_bearish.shift(k) at row i inside a logical
\* expression: the undefined rows of the shifted column count as False
Bull(M, i, k) == i - k >= 1 /\ Gt(M.c[i - k], M.o[i - k])
Bear(M, i, k) == i - k >= 1 /\ Lt(M.c[i - k], M.o[i - k])
\* flag.shift(k).astype(bool) at row i: the undefined rows become True
Prev(F(_, _), M, i, k) == IF i - k >= 1 THEN F(M, i - k) ELSE TRUE
\* (a + b) / 2
Mid(a, b) == Div(Add(a, b), Num(2))

\* ---- single candle patterns
\* the variant with the threshold at half the range
HalfBody(M, i) == LtK(M.body_abs[i], M.range[i], 1, 2)
doji(M, i) == LtK(M.body_abs[i], M.range[i], 1, 10)
long_legged_doji(M, i) ==
  /\ LtK(M.body_abs[i], M.range[i], 1, 10)
  /\ GtK(M.upper_shadow[i], M.range[i], 3, 10)
  /\ GtK(M.lower_shadow[i], M.range[i], 3, 10)
dragonfly_doji(M, i) ==
  /\ LtK(M.body_abs[i], M.range[i], 1, 10)
  /\ LtK(M.upper_shadow[i], M.range[i], 1, 10)
  /\ GtK(M.lower_shadow[i], M.range[i], 6, 10)
gravestone_doji(M, i) ==
  /\ LtK(M.body_abs[i], M.range[i], 1, 10)
  /\ LtK(M.lower_shadow[i], M.range[i], 1, 10)
  /\ GtK(M.upper_shadow[i], M.range[i], 6, 10)
hammer(M, i) ==
  /\ GtK(M.lower_shadow[i], M.body_abs[i], 2, 1)
  /\ LtK(M.upper_shadow[i], M.body_abs[i], 1, 2)
  /\ Gt(M.body_abs[i], Num(0))
inverted_hammer(M, i) ==
  /\ GtK(M.upper_shadow[i], M.body_abs[i], 2, 1)
  /\ LtK(M.lower_shadow[i], M.body_abs[i], 1, 2)
  /\ Gt(M.body_abs[i], Num(0))
hanging_man(M, i) ==
  /\ GtK(M.lower_shadow[i], M.body_abs[i], 2, 1)
  /\ LtK(M.upper_shadow[i], M.body_abs[i], 1, 2)
  /\ Lt(V(M.c, i, 1), V(M.c, i, 5))
shooting_star(M, i) ==
  /\ GtK(M.upper_shadow[i], M.body_abs[i], 2, 1)
  /\ LtK(M.lower_shadow[i], M.body_abs[i], 1, 2)
  /\ Lt(V(M.c, i, 1), V(M.c, i, 5))
bullish_marubozu(M, i) ==
  /\ Bull(M, i, 0)
  /\ LtK(M.upper_shadow[i], M.range[i], 5, 100)
  /\ LtK(M.lower_shadow[i], M.range[i], 5, 100)
bearish_marubozu(M, i) ==
  /\ Bear(M, i, 0)
  /\ LtK(M.upper_shadow[i], M.range[i], 5, 100)
  /\ LtK(M.lower_shadow[i], M.range[i], 5, 100)
spinning_top(M, i) ==
  /\ LtK(M.body_abs[i], M.range[i], 3, 10)
  /\ Gt(M.upper_shadow[i], M.body_abs[i])
  /\ Gt(M.lower_shadow[i], M.body_abs[i])
  /\ ~doji(M, i)
high_wave(M, i) ==
  /\ LtK(M.body_abs[i], M.range[i], 2, 10)
  /\ GtK(M.upper_shadow[i], M.range[i], 35, 100)
  /\ GtK(M.lower_shadow[i], M.range[i], 35, 100)
bullish_belt_hold(M, i) ==
  /\ Bull(M, i, 0)
  /\ LtK(M.lower_shadow[i], M.range[i], 5, 100)
  /\ GtK(M.body_abs[i], M.avg_body[i], 15, 10)
bearish_belt_hold(M, i) ==
  /\ Bear(M, i, 0)
  /\ LtK(M.upper_shadow[i], M.range[i], 5, 100)
  /\ GtK(M.body_abs[i], M.avg_body[i], 15, 10)

\* ---- double candle patterns
bullish_engulfing(M, i) ==
  /\ Bear(M, i, 1) /\ Bull(M, i, 0)
  /\ Lt(M.o[i], V(M.c, i, 1))
  /\ Gt(M.c[i], V(M.o, i, 1))
  /\ Gt(M.body_abs[i], V(M.body_abs, i, 1))
bearish_engulfing(M, i) ==
  /\ Bull(M, i, 1) /\ Bear(M, i, 0)
  /\ Gt(M.o[i], V(M.c, i, 1))
  /\ Lt(M.c[i], V(M.o, i, 1))
  /\ Gt(M.body_abs[i], V(M.body_abs, i, 1))
bullish_harami(M, i) ==
  /\ Bear(M, i, 1) /\ Bull(M, i, 0)
  /\ Gt(M.o[i], V(M.c, i, 1))
  /\ Lt(M.c[i], V(M.o, i, 1))
  /\ LtK(M.body_abs[i], V(M.body_abs, i, 1), 1, 2)
bearish_harami(M, i) ==
  /\ Bull(M, i, 1) /\ Bear(M, i, 0)
  /\ Lt(M.o[i], V(M.c, i, 1))
  /\ Gt(M.c[i], V(M.o, i, 1))
  /\ LtK(M.body_abs[i], V(M.body_abs, i, 1), 1, 2)
bullish_harami_cross(M, i) ==
  /\ Bear(M, i, 1) /\ doji(M, i)
  /\ Lt(M.h[i], V(M.o, i, 1))
  /\ Gt(M.l[i], V(M.c, i, 1))
bearish_harami_cross(M, i) ==
  /\ Bull(M, i, 1) /\ doji(M, i)
  /\ Lt(M.h[i], V(M.c, i, 1))
  /\ Gt(M.l[i], V(M.o, i, 1))
piercing_line(M, i) ==
  /\ Bear(M, i, 1) /\ Bull(M, i, 0)
  /\ Lt(M.o[i], V(M.l, i, 1))
  /\ Gt(M.c[i], Mid(V(M.o, i, 1), V(M.c, i, 1)))
  /\ Lt(M.c[i], V(M.o, i, 1))
dark_cloud_cover(M, i) ==
  /\ Bull(M, i, 1) /\ Bear(M, i, 0)
  /\ Gt(M.o[i], V(M.h, i, 1))
  /\ Lt(M.c[i], Mid(V(M.o, i, 1), V(M.c, i, 1)))
  /\ Gt(M.c[i], V(M.o, i, 1))
tweezer_top(M, i) ==
  /\ Bull(M, i, 1) /\ Bear(M, i, 0)
  /\ LtK(Abs(Sub(M.h[i], V(M.h, i, 1))), M.avg_range[i], 5, 100)
tweezer_bottom(M, i) ==
  /\ Bear(M, i, 1) /\ Bull(M, i, 0)
  /\ LtK(Abs(Sub(M.l[i], V(M.l, i, 1))), M.avg_range[i], 5, 100)
bullish_kicking(M, i) ==
  /\ Prev(bearish_marubozu, M, i, 1) /\ bullish_marubozu(M, i)
  /\ Gt(M.o[i], V(M.o, i, 1))
bearish_kicking(M, i) ==
  /\ Prev(bullish_marubozu, M, i, 1) /\ bearish_marubozu(M, i)
  /\ Lt(M.o[i], V(M.o, i, 1))
bullish_meeting_lines(M, i) ==
  /\ Bear(M, i, 1) /\ Bull(M, i, 0)
  /\ LtK(Abs(Sub(M.c[i], V(M.c, i, 1))), M.avg_range[i], 3, 100)
bearish_meeting_lines(M, i) ==
  /\ Bull(M, i, 1) /\ Bear(M, i, 0)
  /\ LtK(Abs(Sub(M.c[i], V(M.c, i, 1))), M.avg_range[i], 3, 100)

\* ---- triple candle patterns
morning_star(M, i) ==
  /\ Bear(M, i, 2)
  /\ Gt(V(M.body_abs, i, 2), M.avg_body[i])
  /\ LtK(V(M.body_abs, i, 1), M.avg_body[i], 1, 2)
  /\ Bull(M, i, 0)
  /\ Gt(M.c[i], Mid(V(M.o, i, 2), V(M.c, i, 2)))
evening_star(M, i) ==
  /\ Bull(M, i, 2)
  /\ Gt(V(M.body_abs, i, 2), M.avg_body[i])
  /\ LtK(V(M.body_abs, i, 1), M.avg_body[i], 1, 2)
  /\ Bear(M, i, 0)
  /\ Lt(M.c[i], Mid(V(M.o, i, 2), V(M.c, i, 2)))
morning_doji_star(M, i) ==
  /\ Bear(M, i, 2) /\ Prev(doji, M, i, 1) /\ Bull(M, i, 0)
  /\ Gt(M.c[i], Mid(V(M.o, i, 2), V(M.c, i, 2)))
evening_doji_star(M, i) ==
  /\ Bull(M, i, 2) /\ Prev(doji, M, i, 1) /\ Bear(M, i, 0)
  /\ Lt(M.c[i], Mid(V(M.o, i, 2), V(M.c, i, 2)))
three_white_soldiers(M, i) ==
  /\ Bull(M, i, 0) /\ Bull(M, i, 1) /\ Bull(M, i, 2)
  /\ Gt(M.c[i], V(M.c, i, 1)) /\ Gt(V(M.c, i, 1), V(M.c, i, 2))
  /\ Gt(M.o[i], V(M.o, i, 1)) /\ Gt(V(M.o, i, 1), V(M.o, i, 2))
  /\ LtK(M.upper_shadow[i], M.body_abs[i], 3, 10)
  /\ LtK(V(M.upper_shadow, i, 1), V(M.body_abs, i, 1), 3, 10)
three_black_crows(M, i) ==
  /\ Bear(M, i, 0) /\ Bear(M, i, 1) /\ Bear(M, i, 2)
  /\ Lt(M.c[i], V(M.c, i, 1)) /\ Lt(V(M.c, i, 1), V(M.c, i, 2))
  /\ Lt(M.o[i], V(M.o, i, 1)) /\ Lt(V(M.o, i, 1), V(M.o, i, 2))
  /\ LtK(M.lower_shadow[i], M.body_abs[i], 3, 10)
  /\ LtK(V(M.lower_shadow, i, 1), V(M.body_abs, i, 1), 3, 10)
three_inside_up(M, i) ==
  Prev(bullish_harami, M, i, 1) /\ Bull(M, i, 0) /\ Gt(M.c[i], V(M.h, i, 2))
three_inside_down(M, i) ==
  Prev(bearish_harami, M, i, 1) /\ Bear(M, i, 0) /\ Lt(M.c[i], V(M.l, i, 2))
three_outside_up(M, i) ==
  Prev(bullish_engulfing, M, i, 1) /\ Bull(M, i, 0) /\ Gt(M.c[i], V(M.c, i, 1))
three_outside_down(M, i) ==
  Prev(bearish_engulfing, M, i, 1) /\ Bear(M, i, 0) /\ Lt(M.c[i], V(M.c, i, 1))
bullish_abandoned_baby(M, i) ==
  /\ Bear(M, i, 2) /\ Prev(doji, M, i, 1)
  /\ Gt(V(M.l, i, 1), V(M.h, i, 2))
  /\ Bull(M, i, 0)
  /\ Gt(M.l[i], V(M.h, i, 1))
bearish_abandoned_baby(M, i) ==
  /\ Bull(M, i, 2) /\ Prev(doji, M, i, 1)
  /\ Lt(V(M.h, i, 1), V(M.l, i, 2))
  /\ Bear(M, i, 0)
  /\ Lt(M.h[i], V(M.l, i, 1))
bullish_tri_star(M, i) ==
  /\ doji(M, i) /\ Prev(doji, M, i, 1) /\ Prev(doji, M, i, 2)
  /\ Lt(V(M.l, i, 1), V(M.l, i, 2))
  /\ Gt(M.l[i], V(M.l, i, 1))
bearish_tri_star(M, i) ==
  /\ doji(M, i) /\ Prev(doji, M, i, 1) /\ Prev(doji, M, i, 2)
  /\ Gt(V(M.h, i, 1), V(M.h, i, 2))
  /\ Lt(M.h[i], V(M.h, i, 1))

\* ---- complex patterns
rising_three_methods(M, i) ==
  /\ Bull(M, i, 4)
  /\ Gt(V(M.body_abs, i, 4), M.avg_body[i])
  /\ Bear(M, i, 3) /\ Bear(M, i, 2) /\ Bear(M, i, 1)
  /\ Gt(V(M.l, i, 1), V(M.l, i, 4))
  /\ Lt(V(M.h, i, 1), V(M.h, i, 4))
  /\ Bull(M, i, 0)
  /\ Gt(M.c[i], V(M.c, i, 4))
falling_three_methods(M, i) ==
  /\ Bear(M, i, 4)
  /\ Gt(V(M.body_abs, i, 4), M.avg_body[i])
  /\ Bull(M, i, 3) /\ Bull(M, i, 2) /\ Bull(M, i, 1)
  /\ Lt(V(M.h, i, 1), V(M.h, i, 4))
  /\ Gt(V(M.l, i, 1), V(M.l, i, 4))
  /\ Bear(M, i, 0)
  /\ Lt(M.c[i], V(M.c, i, 4))
upside_gap_two_crows(M, i) ==
  /\ Bull(M, i, 2) /\ Bear(M, i, 1)
  /\ Gt(V(M.o, i, 1), V(M.c, i, 2))
  /\ Bear(M, i, 0)
  /\ Gt(M.o[i], V(M.o, i, 1))
  /\ Lt(M.c[i], V(M.c, i, 1))
  /\ Gt(M.c[i], V(M.c, i, 2))
mat_hold(M, i) ==
  /\ Bull(M, i, 4)
  /\ Gt(V(M.body_abs, i, 4), M.avg_body[i])
  /\ Gt(V(M.o, i, 3), V(M.c, i, 4))
  /\ Bear(M, i, 2) /\ Bear(M, i, 1)
  /\ Gt(V(M.l, i, 1), V(M.l, i, 4))
  /\ Bull(M, i, 0)
  /\ Gt(M.c[i], V(M.h, i, 4))
bullish_breakaway(M, i) ==
  /\ Bear(M, i, 4) /\ Bear(M, i, 3)
  /\ Lt(V(M.o, i, 3), V(M.c, i, 4))
  /\ Bear(M, i, 2)
  /\ LtK(V(M.body_abs, i, 1), M.avg_body[i], 1, 2)
  /\ Bull(M, i, 0)
  /\ Gt(M.c[i], V(M.c, i, 3))
  /\ Lt(M.c[i], V(M.c, i, 4))
on_neck_line(M, i) ==
  /\ Bear(M, i, 1) /\ Bull(M, i, 0)
  /\ Lt(M.o[i], V(M.l, i, 1))
  /\ LtK(Abs(Sub(M.c[i], V(M.l, i, 1))), M.avg_range[i], 3, 100)
in_neck_line(M, i) ==
  /\ Bear(M, i, 1) /\ Bull(M, i, 0)
  /\ Lt(M.o[i], V(M.l, i, 1))
  /\ Gt(M.c[i], V(M.l, i, 1))
  /\ Lt(M.c[i], Add(V(M.c, i, 1), Mul(V(M.body_abs, i, 1), Dec(2, 10))))
thrusting_line(M, i) ==
  /\ Bear(M, i, 1) /\ Bull(M, i, 0)
  /\ Lt(M.o[i], V(M.l, i, 1))
  /\ Gt(M.c[i], V(M.c, i, 1))
  /\ Lt(M.c[i], Mid(V(M.o, i, 1), V(M.c, i, 1)))
advance_block(M, i) ==
  /\ Bull(M, i, 0) /\ Bull(M, i, 1) /\ Bull(M, i, 2)
  /\ Lt(M.body_abs[i], V(M.body_abs, i, 1))
  /\ Lt(V(M.body_abs, i, 1), V(M.body_abs, i, 2))
  /\ Gt(M.upper_shadow[i], V(M.upper_shadow, i, 1))
deliberation(M, i) ==
  /\ Bull(M, i, 0) /\ Bull(M, i, 1) /\ Bull(M, i, 2)
  /\ Gt(V(M.body_abs, i, 2), M.avg_body[i])
  /\ Gt(V(M.body_abs, i, 1), M.avg_body[i])
  /\ LtK(M.body_abs[i], M.avg_body[i], 1, 2)

\* ---- gap patterns
up_gap(M, i) == Gt(M.l[i], V(M.h, i, 1))
down_gap(M, i) == Lt(M.h[i], V(M.l, i, 1))
upward_tasuki_gap(M, i) ==
  /\ Bull(M, i, 2) /\ Bull(M, i, 1)
  /\ Gt(V(M.l, i, 1), V(M.h, i, 2))
  /\ Bear(M, i, 0)
  /\ Gt(M.o[i], V(M.o, i, 1))
  /\ Lt(M.c[i], V(M.c, i, 1))
  /\ Gt(M.c[i], V(M.h, i, 2))
downward_tasuki_gap(M, i) ==
  /\ Bear(M, i, 2) /\ Bear(M, i, 1)
  /\ Lt(V(M.h, i, 1), V(M.l, i, 2))
  /\ Bull(M, i, 0)
  /\ Lt(M.o[i], V(M.o, i, 1))
  /\ Gt(M.c[i], V(M.c, i, 1))
  /\ Lt(M.c[i], V(M.l, i, 2))
side_by_side_white(M, i) ==
  /\ Bull(M, i, 2) /\ Bull(M, i, 1) /\ Bull(M, i, 0)
  /\ Gt(V(M.l, i, 1), V(M.h, i, 2))
  /\ LtK(Abs(Sub(M.o[i], V(M.o, i, 1))), M.avg_range[i], 5, 100)
  /\ LtK(Abs(Sub(M.c[i], V(M.c, i, 1))), M.avg_range[i], 5, 100)
stick_sandwich(M, i) ==
  /\ Bear(M, i, 2) /\ Bull(M, i, 1) /\ Bear(M, i, 0)
  /\ LtK(Abs(Sub(M.c[i], V(M.c, i, 2))), M.avg_range[i], 3, 100)

\* the flag columns in the order lines 47-506 create them
pattern_flags ==
  << "doji", "long_legged_doji", "dragonfly_doji", "gravestone_doji",
     "hammer", "inverted_hammer", "hanging_man", "shooting_star",
     "bullish_marubozu", "bearish_marubozu", "spinning_top", "high_wave",
     "bullish_belt_hold", "bearish_belt_hold", "bullish_engulfing",
     "bearish_engulfing", "bullish_harami", "bearish_harami",
     "bullish_harami_cross", "bearish_harami_cross", "piercing_line",
     "dark_cloud_cover", "tweezer_top", "tweezer_bottom", "bullish_kicking",
     "bearish_kicking", "bullish_meeting_lines", "bearish_meeting_lines",
     "morning_star", "evening_star", "morning_doji_star",
     "evening_doji_star", "three_white_soldiers", "three_black_crows",
     "three_inside_up", "three_inside_down", "three_outside_up",
     "three_outside_down", "bullish_abandoned_baby",
     "bearish_abandoned_baby", "bullish_tri_star", "bearish_tri_star",
     "rising_three_methods", "falling_three_methods", "upside_gap_two_crows",
     "mat_hold", "bullish_breakaway", "on_neck_line", "in_neck_line",
     "thrusting_line", "advance_block", "deliberation", "up_gap", "down_gap",
     "upward_tasuki_gap", "downward_tasuki_gap", "side_by_side_white",
     "stick_sandwich" >>

\* the flags of row i, by column name
FlagsAt(M, i) ==
  [ doji |-> doji(M, i),
    long_legged_doji |-> long_legged_doji(M, i),
    dragonfly_doji |-> dragonfly_doji(M, i),
    gravestone_doji |-> gravestone_doji(M, i),
    hammer |-> hammer(M, i),
    inverted_hammer |-> inverted_hammer(M, i),
    hanging_man |-> hanging_man(M, i),
    shooting_star |-> shooting_star(M, i),
    bullish_marubozu |-> bullish_marubozu(M, i),
    bearish_marubozu |-> bearish_marubozu(M, i),
    spinning_top |-> spinning_top(M, i),
    high_wave |-> high_wave(M, i),
    bullish_belt_hold |-> bullish_belt_hold(M, i),
    bearish_belt_hold |-> bearish_belt_hold(M, i),
    bullish_engulfing |-> bullish_engulfing(M, i),
    bearish_engulfing |-> bearish_engulfing(M, i),
    bullish_harami |-> bullish_harami(M, i),
    bearish_harami |-> bearish_harami(M, i),
    bullish_harami_cross |-> bullish_harami_cross(M, i),
    bearish_harami_cross |-> bearish_harami_cross(M, i),
    piercing_line |-> piercing_line(M, i),
    dark_cloud_cover |-> dark_cloud_cover(M, i),
    tweezer_top |-> tweezer_top(M, i),
    tweezer_bottom |-> tweezer_bottom(M, i),
    bullish_kicking |-> bullish_kicking(M, i),
    bearish_kicking |-> bearish_kicking(M, i),
    bullish_meeting_lines |-> bullish_meeting_lines(M, i),
    bearish_meeting_lines |-> bearish_meeting_lines(M, i),
    morning_star |-> morning_star(M, i),
    evening_star |-> evening_star(M, i),
    morning_doji_star |-> morning_doji_star(M, i),
    evening_doji_star |-> evening_doji_star(M, i),
    three_white_soldiers |-> three_white_soldiers(M, i),
    three_black_crows |-> three_black_crows(M, i),
    three_inside_up |-> three_inside_up(M, i),
    three_inside_down |-> three_inside_down(M, i),
    three_outside_up |-> three_outside_up(M, i),
    three_outside_down |-> three_outside_down(M, i),
    bullish_abandoned_baby |-> bullish_abandoned_baby(M, i),
    bearish_abandoned_baby |-> bearish_abandoned_baby(M, i),
    bullish_tri_star |-> bullish_tri_star(M, i),
    bearish_tri_star |-> bearish_tri_star(M, i),
    rising_three_methods |-> rising_three_methods(M, i),
    falling_three_methods |-> falling_three_methods(M, i),
    upside_gap_two_crows |-> upside_gap_two_crows(M, i),
    mat_hold |-> mat_hold(M, i),
    bullish_breakaway |-> bullish_breakaway(M, i),
    on_neck_line |-> on_neck_line(M, i),
    in_neck_line |-> in_neck_line(M, i),
    thrusting_line |-> thrusting_line(M, i),
    advance_block |-> advance_block(M, i),
    deliberation |-> deliberation(M, i),
    up_gap |-> up_gap(M, i),
    down_gap |-> down_gap(M, i),
    upward_tasuki_gap |-> upward_tasuki_gap(M, i),
    downward_tasuki_gap |-> downward_tasuki_gap(M, i),
    side_by_side_white |-> side_by_side_white(M, i),
    stick_sandwich |-> stick_sandwich(M, i) ]

bullish_patterns ==
  << "dragonfly_doji", "hammer", "inverted_hammer", "bullish_marubozu",
     "bullish_belt_hold", "bullish_engulfing", "bullish_harami",
     "bullish_harami_cross", "piercing_line", "tweezer_bottom",
     "bullish_kicking", "bullish_meeting_lines", "morning_star",
     "morning_doji_star", "three_white_soldiers", "three_inside_up",
     "three_outside_up", "bullish_abandoned_baby", "bullish_tri_star",
     "rising_three_methods", "mat_hold", "bullish_breakaway",
     "upward_tasuki_gap", "side_by_side_white", "stick_sandwich", "up_gap" >>
bearish_patterns ==
  << "gravestone_doji", "hanging_man", "shooting_star", "bearish_marubozu",
     "bearish_belt_hold", "bearish_engulfing", "bearish_harami",
     "bearish_harami_cross", "dark_cloud_cover", "tweezer_top",
     "bearish_kicking", "bearish_meeting_lines", "evening_star",
     "evening_doji_star", "three_black_crows", "three_inside_down",
     "three_outside_down", "bearish_abandoned_baby", "bearish_tri_star",
     "falling_three_methods", "upside_gap_two_crows", "on_neck_line",
     "in_neck_line", "advance_block", "deliberation", "downward_tasuki_gap",
     "down_gap" >>
\* 2 if 'engulfing' in p or 'star' in p else 1
PatternWeight(p) ==
  IF p \in {"shooting_star", "bullish_engulfing", "bearish_engulfing", "morning_star",
            "evening_star", "morning_doji_star", "evening_doji_star", "bullish_tri_star",
            "bearish_tri_star"}
  THEN 2 ELSE 1

RECURSIVE WeightedSum(_, _, _)
WeightedSum(flags, ps, k) ==
  IF k > Len(ps) THEN 0
  ELSE (IF flags[ps[k]] THEN PatternWeight(ps[k]) ELSE 0) + WeightedSum(flags, ps, k + 1)

\* the variant without the 1 in the denominator
PlainRatio(b, r) ==
  With([q \in {Mul(Div(Sub(b, r), Add(b, r)), Num(100))} |->
  IF IsNaN(q) THEN Num(0) ELSE q])
\* ((bull - bear) / (bull + bear + 1) * 100).fillna(0)
NetScore(b, r) ==
  With([q \in {Mul(Div(Sub(b, r), Add(Add(b, r), Num(1))), Num(100))} |->
  IF IsNaN(q) THEN Num(0) ELSE q])

cols_to_drop ==
  << "body", "body_abs", "range", "upper_shadow", "lower_shadow",
     "body_pct", "is_bullish", "is_bearish", "avg_body", "avg_range" >>

\* CandlestickPatternDetector.detect_all_patterns
detect_all_patterns(df) ==
  With([r0 \in {DfCopy(df)} |->
  With([missing \in {FirstMissing(df.tbl, <<"close", "open", "high", "low">>)} |->
  IF missing # "" THEN Raise(KeyError(missing), ArgAfter(df, r0))
  ELSE
  With([M \in {CandleMetrics(r0.tbl)} |->
  With([n \in {NRows(r0.tbl)} |->
  With([rows \in {Tab(n, LAMBDA i : FlagsAt(M, i))} |->
  With([bull \in {Tab(Len(rows), LAMBDA i : Num(WeightedSum(rows[i], bullish_patterns, 1)))} |->
  With([bear \in {Tab(Len(rows), LAMBDA i : Num(WeightedSum(rows[i], bearish_patterns, 1)))} |->
  With([flagc \in {Tab(Len(pattern_flags), LAMBDA k :
           Tab(Len(rows), LAMBDA i : Bool(rows[i][pattern_flags[k]])))} |->
  With([r1 \in {PutAll(r0, pattern_flags, flagc)} |->
  With([r2 \in {PutAll(r1, <<"bullish_pattern_score", "bearish_pattern_score",
                    "pattern_score">>,
              <<bull, bear, Map2(NetScore, bull, bear)>>)} |->
  With([r3 \in {Ref(DropCols(r2.tbl, cols_to_drop), r2.obj)} |->
  Ret(r3, ArgAfter(df, r3))])])])])])])])])])])])

get_pattern_names ==
  pattern_flags \o <<"bullish_pattern_score", "bearish_pattern_score", "pattern_score">>

\* --------------------------------------- features/feature_engineer.py

\* a / (b + 0.0001): the constant is a tenth of the smallest fixed-point step,
\* so the quotient is formed from 10 a and 10 b + 1
DivEps(a, b) ==
  IF IsNum(a) /\ IsNum(b) THEN Fix(FixQuot(10 * a.v, 10 * b.v + 1)) ELSE Div(a, b)
SDivEps(a, b) == Map2(DivEps, a, b)

\* FeatureEngineer._validate_data on self.df
FE_validate_data(self_df) ==
  IF FirstMissing(self_df.tbl, required) # ""
  THEN Raise(MissingColumn(FirstMissing(self_df.tbl, required)), self_df)
  ELSE Ret(self_df, self_df)

\* FeatureEngineer.__init__: out is self.df of the new object
FE_init(df) ==
  With([v \in {FE_validate_data(LowerColumns(DfCopy(df)))} |->
  [exc |-> v.exc, out |-> v.out, arg |-> ArgAfter(df, v.out)]])

\* (a - b) / b * 100
PctDist(a, b) == MulC(SDiv(SSub(a, b), b), Num(100))

_add_price_features(df) ==
  With([t \in {df.tbl} |->
  With([open \in {Col(t, "open")} |->
  With([high \in {Col(t, "high")} |->
  With([low \in {Col(t, "low")} |->
  With([close \in {Col(t, "close")} |->
  With([r7 \in {PutAll(df,
         <<"return_1d", "return_2d", "return_5d", "return_10d", "return_20d",
           "log_return", "log_return_5d">>,
         <<PctChange(close, 1), PctChange(close, 2), PctChange(close, 5),
           PctChange(close, 10), PctChange(close, 20),
           Map(Log, SDiv(close, Shift(close, 1))),
           Map(Log, SDiv(close, Shift(close, 5)))>>)} |->
  With([body \in {SAbs(SSub(close, open))} |->
  With([upper_shadow \in {SSub(high, RowMax2(open, close))} |->
  With([lower_shadow \in {SSub(RowMin2(open, close), low)} |->
  With([r16 \in {PutAll(r7,
         <<"high_low_ratio", "close_open_ratio", "high_close_ratio",
           "low_close_ratio", "body", "body_pct", "upper_shadow",
           "lower_shadow", "shadow_ratio">>,
         <<SDiv(high, low), SDiv(close, open), SDiv(high, close),
           SDiv(low, close), body, MulC(SDiv(body, close), Num(100)),
           upper_shadow, lower_shadow, SDivEps(upper_shadow, lower_shadow)>>)} |->
  With([hl \in {SSub(high, low)} |->
  With([gap \in {SSub(open, Shift(close, 1))} |->
  With([rolling_high \in {RollingMax(high, 20)} |->
  With([rolling_low \in {RollingMin(low, 20)} |->
  With([r23 \in {PutAll(r16,
         <<"range", "range_pct", "gap", "gap_pct", "dist_from_high",
           "dist_from_low", "price_position">>,
         <<hl, MulC(SDiv(hl, close), Num(100)), gap,
           MulC(SDiv(gap, Shift(close, 1)), Num(100)),
           MulC(SDiv(SSub(rolling_high, close), rolling_high), Num(100)),
           PctDist(close, rolling_low),
           SDivEps(SSub(close, rolling_low), SSub(rolling_high, rolling_low))>>)} |->
  Ret(r23, r23)])])])])])])])])])])])])])])])

_add_volume_features(df) ==
  With([t \in {df.tbl} |->
  With([volume \in {Col(t, "volume")} |->
  With([close \in {Col(t, "close")} |->
  With([open \in {Col(t, "open")} |->
  With([ma5 \in {RollingMean(volume, 5)} |->
  With([ma10 \in {RollingMean(volume, 10)} |->
  With([ma20 \in {RollingMean(volume, 20)} |->
  With([pv \in {SMul(close, volume)} |->
  With([up \in {Map2(LAMBDA c, v : IF c = Num(1) THEN v ELSE Num(0), SGt(close, open), volume)} |->
  With([down \in {Map2(LAMBDA c, v : IF c = Num(1) THEN v ELSE Num(0), SLt(close, open), volume)} |->
  With([r9 \in {PutAll(df,
         <<"volume_change", "volume_change_5d", "volume_ma_5", "volume_ma_10",
           "volume_ma_20", "volume_ratio_5", "volume_ratio_10",
           "volume_ratio_20", "volume_trend">>,
         <<PctChange(volume, 1), PctChange(volume, 5), ma5, ma10, ma20,
           SDiv(volume, ma5), SDiv(volume, ma10), SDiv(volume, ma20),
           SDiv(ma5, ma20)>>)} |->
  With([r15 \in {PutAll(r9,
         <<"pv_trend", "pv_trend_ma", "volume_zscore", "up_volume",
           "down_volume", "up_down_volume_ratio">>,
         <<pv, RollingMean(pv, 10),
           SDivEps(SSub(volume, ma20), RollingStd(volume, 20)),
           up, down,
           SDiv(RollingSum(up, 10), AddC(RollingSum(down, 10), Num(1)))>>)} |->
  Ret(r15, r15)])])])])])])])])])])])])

IndexError == [type |-> "IndexError", arg |-> "single positional indexer is out-of-bounds"]

\* _add_technical_indicators: ti.df is a copy of df taken at line 154, and the
\* methods of ti read its five price columns only
_add_technical_indicators(df) ==
  With([ti \in {df.tbl} |->
  With([close \in {Col(ti, "close")} |->
  With([sma_5 \in {sma(ti, 5, "close")} |->
  With([sma_20 \in {sma(ti, 20, "close")} |->
  With([sma_50 \in {sma(ti, 50, "close")} |->
  With([sma_200 \in {sma(ti, 200, "close")} |->
  With([ema_9 \in {ema(ti, 9, "close")} |->
  With([ema_21 \in {ema(ti, 21, "close")} |->
  With([r16 \in {PutAll(df,
         <<"sma_5", "sma_10", "sma_20", "sma_50", "sma_200",
           "ema_9", "ema_12", "ema_21", "ema_26",
           "sma_5_20_cross", "sma_20_50_cross", "sma_50_200_cross",
           "ema_9_21_cross",
           "close_sma_20_dist", "close_sma_50_dist", "close_sma_200_dist">>,
         <<sma_5, sma(ti, 10, "close"), sma_20, sma_50, sma_200,
           ema_9, ema(ti, 12, "close"), ema_21, ema(ti, 26, "close"),
           SGt(sma_5, sma_20), SGt(sma_20, sma_50), SGt(sma_50, sma_200),
           SGt(ema_9, ema_21),
           PctDist(close, sma_20), PctDist(close, sma_50),
           PctDist(close, sma_200)>>)} |->
  With([m \in {macd(ti)} |->
  With([rsi_14 \in {rsi(ti, 14)} |->
  With([r27 \in {PutAll(r16,
         <<"macd", "macd_signal", "macd_histogram", "macd_cross",
           "rsi_7", "rsi_14", "rsi_21", "rsi_oversold", "rsi_overbought",
           "rsi_bullish_div", "rsi_bearish_div">>,
         <<m.macd, m.signal, m.histogram, SGt(m.macd, m.signal),
           rsi(ti, 7), rsi_14, rsi(ti, 21),
           LtC(rsi_14, Num(30)), GtC(rsi_14, Num(70)),
           SAnd(SLt(close, Shift(close, 5)), SGt(rsi_14, Shift(rsi_14, 5))),
           SAnd(SGt(close, Shift(close, 5)), SLt(rsi_14, Shift(rsi_14, 5)))>>)} |->
  With([stoch \in {stochastic(ti)} |->
  With([dmi \in {adx(ti)} |->
  With([r37 \in {PutAll(r27,
         <<"stoch_k", "stoch_d", "stoch_cross", "stoch_oversold",
           "stoch_overbought",
           "adx", "adx_plus_di", "adx_minus_di", "adx_strong_trend",
           "adx_bullish">>,
         <<stoch.stoch_k, stoch.stoch_d, SGt(stoch.stoch_k, stoch.stoch_d),
           LtC(stoch.stoch_k, Num(20)), GtC(stoch.stoch_k, Num(80)),
           dmi.adx, dmi.plus_di, dmi.minus_di, GtC(dmi.adx, Num(25)),
           SGt(dmi.plus_di, dmi.minus_di)>>)} |->
  With([bb \in {bollinger_bands(ti)} |->
  With([atr14 \in {atr(ti, 14)} |->
  With([cci20 \in {cci(ti)} |->
  With([mfi14 \in {mfi(ti)} |->
  With([r52 \in {PutAll(r37,
         <<"bb_upper", "bb_middle", "bb_lower", "bb_bandwidth", "bb_percent_b",
           "bb_squeeze", "atr", "atr_percent", "atr_ma_ratio", "williams_r",
           "cci", "cci_oversold", "cci_overbought",
           "mfi", "mfi_oversold", "mfi_overbought">>,
         <<bb.bb_upper, bb.bb_middle, bb.bb_lower, bb.bb_bandwidth,
           bb.bb_percent_b,
           SLt(bb.bb_bandwidth, RollingMean(bb.bb_bandwidth, 50)),
           atr14, MulC(SDiv(atr14, close), Num(100)),
           SDiv(atr14, RollingMean(atr14, 20)), williams_r(ti),
           cci20, LtC(cci20, Num(-100)), GtC(cci20, Num(100)),
           mfi14, LtC(mfi14, Num(20)), GtC(mfi14, Num(80))>>)} |->
  IF NRows(ti) = 0 THEN Raise(IndexError, r52)
  ELSE
  With([obv_ \in {obv(ti)} |->
  With([obvma \in {RollingMean(obv_, 20)} |->
  With([cmf20 \in {cmf(ti)} |->
  With([ar \in {aroon(ti)} |->
  With([chop \in {choppiness_index(ti)} |->
  With([elder \in {elder_ray(ti)} |->
  With([ichi \in {ichimoku(ti)} |->
  With([r66 \in {PutAll(r52,
         <<"obv", "obv_ma", "obv_trend", "cmf", "cmf_bullish", "force_index",
           "roc", "momentum", "tsi", "ao",
           "aroon_up", "aroon_down", "aroon_osc", "aroon_bullish">>,
         <<obv_, obvma, SGt(obv_, obvma), cmf20, GtC(cmf20, Num(0)),
           force_index(ti), roc(ti), momentum(ti), tsi(ti),
           awesome_oscillator(ti),
           ar.aroon_up, ar.aroon_down, ar.aroon_osc,
           SGt(ar.aroon_up, ar.aroon_down)>>)} |->
  With([r75 \in {PutAll(r66,
         <<"choppiness", "choppy_market", "bull_power", "bear_power",
           "ichimoku_tenkan", "ichimoku_kijun", "ichimoku_cloud_bullish",
           "price_above_cloud", "hist_volatility">>,
         <<chop, GtC(chop, Dec(618, 10)), elder.bull_power, elder.bear_power,
           ichi.tenkan_sen, ichi.kijun_sen,
           SGt(ichi.senkou_span_a, ichi.senkou_span_b),
           SGt(close, ichi.senkou_span_a), historical_volatility(ti)>>)} |->
  Ret(r75, r75)])])])])])])])])])])])])])])])])])])])])])])])])])])])])])

\* _add_candlestick_patterns: the columns and the pattern methods they come from
fe_pattern_columns ==
  << "pattern_doji", "pattern_long_legged_doji", "pattern_dragonfly_doji",
     "pattern_gravestone_doji", "pattern_hammer", "pattern_inverted_hammer",
     "pattern_hanging_man", "pattern_shooting_star", "pattern_marubozu_bullish",
     "pattern_marubozu_bearish", "pattern_spinning_top",
     "pattern_engulfing_bullish", "pattern_engulfing_bearish",
     "pattern_harami_bullish", "pattern_harami_bearish", "pattern_piercing",
     "pattern_dark_cloud", "pattern_tweezer_top", "pattern_tweezer_bottom",
     "pattern_morning_star", "pattern_evening_star",
     "pattern_three_white_soldiers", "pattern_three_black_crows",
     "pattern_three_inside_up", "pattern_three_inside_down",
     "pattern_three_outside_up", "pattern_three_outside_down" >>
fe_pattern_methods ==
  << "doji", "long_legged_doji", "dragonfly_doji",
     "gravestone_doji", "hammer", "inverted_hammer",
     "hanging_man", "shooting_star", "bullish_marubozu",
     "bearish_marubozu", "spinning_top",
     "bullish_engulfing", "bearish_engulfing",
     "bullish_harami", "bearish_harami", "piercing_line",
     "dark_cloud_cover", "tweezer_top", "tweezer_bottom",
     "morning_star", "evening_star",
     "three_white_soldiers", "three_black_crows",
     "three_inside_up", "three_inside_down",
     "three_outside_up", "three_outside_down" >>

\* The class CandlestickPatterns that lines 13 and 293 name is not part of the
\* sources; its methods are taken to be the detector's predicates of the same
\* names over the price columns of df, and its scores the detector's scores.
_add_candlestick_patterns(df) ==
  With([M \in {CandleMetrics(df.tbl)} |->
  With([rows \in {Tab(NRows(df.tbl), LAMBDA i : FlagsAt(M, i))} |->
  With([bull \in {Tab(Len(rows), LAMBDA i : Num(WeightedSum(rows[i], bullish_patterns, 1)))} |->
  With([bear \in {Tab(Len(rows), LAMBDA i : Num(WeightedSum(rows[i], bearish_patterns, 1)))} |->
  With([flagc \in {Tab(Len(fe_pattern_methods), LAMBDA k :
           Tab(Len(rows), LAMBDA i : Bool(rows[i][fe_pattern_methods[k]])))} |->
  With([r27 \in {PutAll(df, fe_pattern_columns, flagc)} |->
  With([r30 \in {PutAll(r27, <<"bullish_pattern_score", "bearish_pattern_score",
                     "pattern_score">>,
              <<bull, bear, Map2(NetScore, bull, bear)>>)} |->
  Ret(r30, r30)])])])])])])])

\* df[f'{col}_lag_{lag}'] = df[col].shift(lag), for the columns present
lag_columns ==
  << <<"close", <<"close_lag_1", "close_lag_2", "close_lag_3", "close_lag_5",
                  "close_lag_10">> >>,
     <<"volume", <<"volume_lag_1", "volume_lag_2", "volume_lag_3", "volume_lag_5",
                   "volume_lag_10">> >>,
     <<"return_1d", <<"return_1d_lag_1", "return_1d_lag_2", "return_1d_lag_3",
                      "return_1d_lag_5", "return_1d_lag_10">> >>,
     <<"rsi_14", <<"rsi_14_lag_1", "rsi_14_lag_2", "rsi_14_lag_3", "rsi_14_lag_5",
                   "rsi_14_lag_10">> >> >>
lags == <<1, 2, 3, 5, 10>>

RECURSIVE AddLags(_, _)
AddLags(df, k) ==
  IF k > Len(lag_columns) THEN df
  ELSE With([col \in {lag_columns[k][1]} |->
       With([next \in {IF HasCol(df.tbl, col)
            THEN PutAll(df, lag_columns[k][2],
                        Tab(Len(lags), LAMBDA j : Shift(Col(df.tbl, col), lags[j])))
            ELSE df} |->
       AddLags(next, k + 1)])])

_add_lag_features(df) ==
  With([r20 \in {AddLags(df, 1)} |->
  With([r23 \in {IF HasCol(r20.tbl, "pattern_score")
       THEN PutAll(r20, <<"pattern_score_lag_1", "pattern_score_lag_2",
                          "pattern_score_lag_3">>,
                   Tab(3, LAMBDA j : Shift(Col(r20.tbl, "pattern_score"), j)))
       ELSE r20} |->
  Ret(r23, r23)])])

\* ---- rolling skewness and kurtosis (pandas' roll_skew / roll_kurt).  The
\* moments are taken about the window mean; d / sqrt(sum d^2) and
\* d^2 / sum d^2 are formed per row so that no power of d is summed.
RECURSIVE SumCubes(_, _, _, _, _)
SumCubes(s, m, r, lo, hi) ==
  IF lo > hi THEN 0
  ELSE IF lo = hi
       THEN LET u == Fix(FixQuot(10 * (s[lo].v - m), r)) IN Mul(u, Mul(u, u)).v
  ELSE LET mid == (lo + hi) \div 2
       IN SumCubes(s, m, r, lo, mid) + SumCubes(s, m, r, mid + 1, hi)
RECURSIVE SumQuarts(_, _, _, _, _)
SumQuarts(s, m, s2, lo, hi) ==
  IF lo > hi THEN 0
  ELSE IF lo = hi
       THEN LET q == Fix(FixQuot((s[lo].v - m) * (s[lo].v - m), s2)) IN Mul(q, q).v
  ELSE LET mid == (lo + hi) \div 2
       IN SumQuarts(s, m, s2, lo, mid) + SumQuarts(s, m, s2, mid + 1, hi)

\* sqrt(n (n - 1)) / (n - 2) * C / B^1.5; 0.0 on a window of one repeated value
WinSkew(s, lo, hi) ==
  With([n \in {hi - lo + 1} |->
  With([m \in {WinMean(s, lo, hi).v} |->
  With([s2 \in {SumSqDev(s, m, lo, hi)} |->
  IF n < 3 THEN NaN
  ELSE IF s2 = 0 THEN Num(0)
  ELSE Mul(Div(Mul(Num(n), Sqrt(Num(n - 1))), Num(n - 2)),
           Fix(SumCubes(s, m, ISqrt(100 * s2), lo, hi)))])])])
\* ((n^2 - 1) D / B^2 - 3 (n - 1)^2) / ((n - 2) (n - 3)); -3.0 on a window of
\* one repeated value
WinKurt(s, lo, hi) ==
  With([n \in {hi - lo + 1} |->
  With([m \in {WinMean(s, lo, hi).v} |->
  With([s2 \in {SumSqDev(s, m, lo, hi)} |->
  IF n < 4 THEN NaN
  ELSE IF s2 = 0 THEN Num(-3)
  ELSE Div(Sub(Mul(Num(n * (n * n - 1)), Fix(SumQuarts(s, m, s2, lo, hi))),
               Num(3 * (n - 1) * (n - 1))),
           Num((n - 2) * (n - 3)))])])])
\* np.prod of the window
RECURSIVE WinProd(_, _, _)
WinProd(s, lo, hi) ==
  IF lo = hi THEN s[lo]
  ELSE LET mid == (lo + hi) \div 2 IN Mul(WinProd(s, lo, mid), WinProd(s, mid + 1, hi))

\* df.groupby(cond.cumsum()).cumcount(): rows since the last row where cond held
Streak(s, Cond(_)) ==
  Map(Fix, Scan(LAMBDA prev, x : IF Cond(x) THEN 0 ELSE prev + SCALE, -SCALE, s))

RECURSIVE AddRolling(_, _)
AddRolling(df, k) ==
  IF k > 3 THEN df
  ELSE With([w \in {<<5, 10, 20>>[k]} |->
       With([ret \in {Col(df.tbl, "return_1d")} |->
       With([hmax \in {RollingMax(Col(df.tbl, "high"), w)} |->
       With([lmin \in {RollingMin(Col(df.tbl, "low"), w)} |->
       With([names \in {<< <<"return_mean_5", "return_std_5", "return_skew_5",
                 "return_kurt_5", "high_max_5", "low_min_5", "range_5">>,
               <<"return_mean_10", "return_std_10", "return_skew_10",
                 "return_kurt_10", "high_max_10", "low_min_10", "range_10">>,
               <<"return_mean_20", "return_std_20", "return_skew_20",
                 "return_kurt_20", "high_max_20", "low_min_20", "range_20">> >>} |->
       AddRolling(PutAll(df, names[k],
                         <<RollingMean(ret, w), RollingStd(ret, w),
                           Rolling(ret, w, WinSkew), Rolling(ret, w, WinKurt),
                           hmax, lmin, SSub(hmax, lmin)>>),
                  k + 1)])])])])])

_add_rolling_features(df) ==
  With([r21 \in {AddRolling(df, 1)} |->
  With([ret \in {Col(r21.tbl, "return_1d")} |->
  With([growth \in {AddC(ret, Num(1))} |->
  With([r26 \in {PutAll(r21,
         <<"cumulative_return_5", "cumulative_return_10",
           "cumulative_return_20", "up_streak", "down_streak">>,
         <<SubC(Rolling(growth, 5, WinProd), Num(1)),
           SubC(Rolling(growth, 10, WinProd), Num(1)),
           SubC(Rolling(growth, 20, WinProd), Num(1)),
           Streak(ret, LAMBDA x : Le(x, Num(0))),
           Streak(ret, LAMBDA x : Ge(x, Num(0)))>>)} |->
  Ret(r26, r26)])])])])

\* ---- calendar of a DatetimeIndex.  A timestamp is the number of days since
\* 1970-01-01; the civil date follows the proleptic Gregorian calendar.
CivilDate(z0) ==
  LET z   == z0 + 719468
      era == z \div 146097
      doe == z - era * 146097
      yoe == (doe - doe \div 1460 + doe \div 36524 - doe \div 146096) \div 365
      doy == doe - (365 * yoe + yoe \div 4 - yoe \div 100)
      mp  == (5 * doy + 2) \div 153
      d   == doy - (153 * mp + 2) \div 5 + 1
      m   == IF mp < 10 THEN mp + 3 ELSE mp - 9
      y   == yoe + era * 400 + (IF m <= 2 THEN 1 ELSE 0)
  IN [year |-> y, month |-> m, day |-> d]
IsLeap(y) == (y % 4 = 0 /\ y % 100 # 0) \/ y % 400 = 0
DaysInMonth(y, m) ==
  IF m = 2 THEN (IF IsLeap(y) THEN 29 ELSE 28)
  ELSE IF m \in {4, 6, 9, 11} THEN 30 ELSE 31
\* Monday = 0
DayOfWeek(z) == (z + 3) % 7
RECURSIVE DaysBefore(_, _)
DaysBefore(y, m) == IF m = 1 THEN 0 ELSE DaysBefore(y, m - 1) + DaysInMonth(y, m - 1)
DayOfYear(z) == With([c \in {CivilDate(z)} |->
                DaysBefore(c.year, c.month) + c.day])
\* the number of ISO weeks of year y: 53 when 1 January is a Thursday, or a
\* Wednesday in a leap year
IsoWeeks(jan1) ==
  With([c \in {CivilDate(jan1)} |->
  IF DayOfWeek(jan1) = 3 \/ (DayOfWeek(jan1) = 2 /\ IsLeap(c.year)) THEN 53 ELSE 52])
\* idx.isocalendar().week
IsoWeek(z) ==
  With([doy \in {DayOfYear(z)} |->
  With([w \in {(doy - (DayOfWeek(z) + 1) + 10) \div 7} |->
  With([jan1 \in {z - doy + 1} |->
  With([prev \in {jan1 - (IF IsLeap(CivilDate(jan1 - 1).year) THEN 366 ELSE 365)} |->
  IF w < 1 THEN IsoWeeks(prev)
  ELSE IF w > IsoWeeks(jan1) THEN 1
  ELSE w])])])])

\* np.sin / np.cos of 2 pi k / 7 (k = 0..6) and of 2 pi m / 12 (m = 1..12)
day_sin   == <<0, 782, 975, 434, -434, -975, -782>>
day_cos   == <<1000, 623, -223, -901, -901, -223, 623>>
month_sin == <<500, 866, 1000, 866, 500, 0, -500, -866, -1000, -866, -500, 0>>
month_cos == <<866, 500, 0, -500, -866, -1000, -866, -500, 0, 500, 866, 1000>>

AttributeError == [type |-> "AttributeError", arg |-> "dayofweek"]

_add_datetime_features(df) ==
  IF df.tbl.dates
  THEN With([idx \in {df.tbl.index} |->
       With([n \in {Len(idx)} |->
       With([cd \in {Tab(n, LAMBDA i : CivilDate(idx[i]))} |->
       With([mend \in {Tab(Len(cd), LAMBDA i :
                cd[i].day = DaysInMonth(cd[i].year, cd[i].month))} |->
       With([r13 \in {PutAll(df,
              <<"day_of_week", "day_of_month", "week_of_year", "month", "quarter",
                "day_sin", "day_cos", "month_sin", "month_cos",
                "is_month_start", "is_month_end", "is_quarter_start",
                "is_quarter_end">>,
              <<Tab(n, LAMBDA i : Num(DayOfWeek(idx[i]))),
                Tab(n, LAMBDA i : Num(cd[i].day)),
                Tab(n, LAMBDA i : Num(IsoWeek(idx[i]))),
                Tab(n, LAMBDA i : Num(cd[i].month)),
                Tab(n, LAMBDA i : Num((cd[i].month - 1) \div 3 + 1)),
                Tab(n, LAMBDA i : Fix(day_sin[DayOfWeek(idx[i]) + 1])),
                Tab(n, LAMBDA i : Fix(day_cos[DayOfWeek(idx[i]) + 1])),
                Tab(n, LAMBDA i : Fix(month_sin[cd[i].month])),
                Tab(n, LAMBDA i : Fix(month_cos[cd[i].month])),
                Tab(n, LAMBDA i : Bool(cd[i].day = 1)),
                Tab(n, LAMBDA i : Bool(mend[i])),
                Tab(n, LAMBDA i : Bool(cd[i].day = 1 /\ cd[i].month % 3 = 1)),
                Tab(n, LAMBDA i : Bool(mend[i] /\ cd[i].month % 3 = 0))>>)} |->
       Ret(r13, r13)])])])])])
  \* pd.to_datetime(df['date']) is a Series, which has no attribute dayofweek
  ELSE IF HasCol(df.tbl, "date") THEN Raise(AttributeError, df)
  ELSE Ret(df, df)

\* _add_target with the default horizon 1
_add_target(df) ==
  With([close \in {Col(df.tbl, "close")} |->
  With([r4 \in {PutAll(df, <<"target", "target_3d", "target_5d", "target_return">>,
              <<SGt(Shift(close, -1), close), SGt(Shift(close, -3), close),
                SGt(Shift(close, -5), close),
                SubC(SDiv(Shift(close, -1), close), Num(1))>>)} |->
  Ret(r4, r4)])])

\* FeatureEngineer.create_all_features: result is a copy of self.df that the
\* eight steps extend in place; arg is self.df afterwards
create_all_features(self_df) ==
  With([p1 \in {Step(Body(NoExc, DfCopy(self_df), self_df), _add_price_features)} |->
  IF p1.exc.type # "" THEN Raise(p1.exc, p1.caller) ELSE
  With([p2 \in {Step(p1, _add_volume_features)} |->
  IF p2.exc.type # "" THEN Raise(p2.exc, p2.caller) ELSE
  With([p3 \in {Step(p2, _add_technical_indicators)} |->
  IF p3.exc.type # "" THEN Raise(p3.exc, p3.caller) ELSE
  With([p4 \in {Step(p3, _add_candlestick_patterns)} |->
  IF p4.exc.type # "" THEN Raise(p4.exc, p4.caller) ELSE
  With([p5 \in {Step(p4, _add_lag_features)} |->
  IF p5.exc.type # "" THEN Raise(p5.exc, p5.caller) ELSE
  With([p6 \in {Step(p5, _add_rolling_features)} |->
  IF p6.exc.type # "" THEN Raise(p6.exc, p6.caller) ELSE
  With([p7 \in {Step(p6, _add_datetime_features)} |->
  IF p7.exc.type # "" THEN Raise(p7.exc, p7.caller) ELSE
  With([p8 \in {Step(p7, _add_target)} |->
  IF p8.exc.type # "" THEN Raise(p8.exc, p8.caller)
  ELSE Ret(p8.cur, p8.caller)])])])])])])])])

\* fe = FeatureEngineer(df); features_df = fe.create_all_features()
EngineerFeatures(df) ==
  With([fe \in {FE_init(df)} |->
  IF fe.exc.type # "" THEN Raise(fe.exc, fe.arg)
  ELSE With([c \in {create_all_features(fe.out)} |->
       [exc |-> c.exc, out |-> c.out, arg |-> fe.arg]])])

\* DataCollector.prepare_training_data from line 487 on, for the table df that
\* fetch_historical_data returned
prepare_training_data(df) ==
  With([f \in {EngineerFeatures(df)} |->
  IF f.exc.type # "" THEN f
  ELSE [f EXCEPT !.out = Ref(DropNa(f.out.tbl), f.out.obj + 1)]])

exclude == <<"open", "high", "low", "close", "volume", "date">>
\* get_feature_list for the dummy table that lines 524-533 draw at random
get_feature_list(dummy_data) ==
  With([f \in {EngineerFeatures(Ref(dummy_data, 0))} |->
  SelectSeq(f.out.tbl.cols, LAMBDA c : c \notin Range(exclude))])

\* ---------------------------------------------------- models/pro_trainer.py
exclude_cols ==
  << "open", "high", "low", "close", "volume", "date",
     "symbol", "target", "target_3d", "target_5d", "target_return" >>
InsufficientForPrediction ==
  [type |-> "ValueError", arg |-> "Insufficient data for prediction", col |-> ""]

\* ProTrainer.predict, lines 321-336: the feature row X handed to the model
PredictionRow(df) ==
  With([f \in {EngineerFeatures(df)} |->
  IF f.exc.type # "" THEN f
  ELSE With([features_df \in {DropNa(f.out.tbl)} |->
       IF NRows(features_df) = 0 THEN Raise(InsufficientForPrediction, f.arg)
       ELSE With([latest \in {TakeRows(features_df, <<NRows(features_df)>>)} |->
            With([X \in {Select(latest, SelectSeq(latest.cols,
                           LAMBDA c : c \notin Range(exclude_cols)))} |->
            With([clean \in {[X EXCEPT !.data =
                    [c \in DOMAIN X.data |->
                       Map(LAMBDA x : IF IsNum(x) THEN x ELSE Num(0),
                           X.data[c])] @@ <<>>]} |->
            [exc |-> NoExc, out |-> Ref(clean, f.out.obj + 2), arg |-> f.arg]])])])])])

\* ---------------------------------------------------- the caller's tables
\* The OHLCV tables a caller passes in.  Bar i of price path `seed` closes at
\* Px(i, seed); it opens at the previous close moved by a gap of -0.02, 0 or
\* +0.02, and its high and low lie outside the body.
Px(i, seed) == 10000 + 40 * ((i * i + seed * i) % 23) - 30 * ((i * seed + 3) % 17)
OpenPx(i, seed) == Px(i - 1, seed) + 20 * (((i * seed) % 3) - 1)
HighPx(i, seed) == Max2(OpenPx(i, seed), Px(i, seed)) + 25 * (i % 3)
LowPx(i, seed) == Min2(OpenPx(i, seed), Px(i, seed)) - 20 * ((i + 1) % 4)
\* 2024-01-01, in days since 1970-01-01
FirstDay == 19723

Title == <<"Open", "High", "Low", "Close", "Volume">>
Upper == <<"OPEN", "HIGH", "LOW", "CLOSE", "VOLUME">>
Without(names, c) == SelectSeq(names, LAMBDA x : Lower(x) # c)

\* The table of n bars of path `seed` under the column names `names`, indexed
\* by calendar days (dated) or by 0..n-1; the close of row `hole` is NaN
\* (hole = 0: no NaN).
Frame(n, seed, names, dated, hole) ==
  [cols  |-> names,
   index |-> Tab(n, LAMBDA i : IF dated THEN FirstDay + i - 1 ELSE i - 1),
   dates |-> dated,
   data  |-> <<>> @@ [c \in Range(names) |->
      Tab(n, LAMBDA i :
        CASE Lower(c) = "open"   -> Fix(OpenPx(i, seed))
          [] Lower(c) = "high"   -> Fix(HighPx(i, seed))
          [] Lower(c) = "low"    -> Fix(LowPx(i, seed))
          [] Lower(c) = "close"  -> IF i = hole THEN NaN ELSE Fix(Px(i, seed))
          [] Lower(c) = "volume" -> Num(1 + ((i * seed) % 5))
          [] OTHER               -> Num(FirstDay + i - 1))]]

\* ---------------------------------------------------- calls and their results
\* What the caller sees of a call: the operation, its include_target argument,
\* the kind of value handed back ("None", "DataFrame", "list", "object") or
\* "raised", the table or list handed back, the exception and the level of the
\* log record written.
Result(op, flag, kind, tbl, list, exc, log) ==
  [op |-> op, flag |-> flag, kind |-> kind, tbl |-> tbl, list |-> list,
   exc |-> exc, log |-> log]
NoCall == Result("", FALSE, "", EmptyTable, <<>>, NoExc, "")
GfResult(g, include_target) ==
  Result("generate_features", include_target, g.kind, g.tbl, <<>>, NoExc, g.log)
\* the result of a call r = [exc, out, arg] that returns a DataFrame
Called(op, r) ==
  IF Raised(r) THEN Result(op, FALSE, "raised", EmptyTable, <<>>, r.exc, "")
  ELSE Result(op, FALSE, "DataFrame", r.out.tbl, <<>>, NoExc, "")
\* the result of a constructor call r whose new object holds r.out as self.df
Constructed(op, r) ==
  IF Raised(r) THEN Result(op, FALSE, "raised", EmptyTable, <<>>, r.exc, "")
  ELSE Result(op, FALSE, "object", r.out.tbl, <<>>, NoExc, "")

\* The return value of an indicator method as a table over the index of
\* self.df: a Series is one column, a DataFrame one column per key.
OneColumn(t, c, s) == SetCol(Select(t, <<>>), c, s)
Columns(t, cols, rec) ==
  SetCols(Select(t, <<>>), cols, Tab(Len(cols), LAMBDA k : rec[cols[k]]))

indicator_methods ==
  << "sma", "ema", "macd", "adx", "ichimoku", "rsi", "stochastic", "williams_r",
     "cci", "roc", "momentum", "tsi", "awesome_oscillator", "atr",
     "bollinger_bands", "historical_volatility", "obv", "ad_line", "cmf",
     "mfi", "force_index", "aroon", "choppiness_index", "elder_ray" >>

\* ti.<m>() with the default arguments
Indicator(m, t) ==
  CASE m = "sma"        -> OneColumn(t, m, sma(t, 20, "close"))
    [] m = "ema"        -> OneColumn(t, m, ema(t, 20, "close"))
    [] m = "macd"       -> Columns(t, <<"macd", "signal", "histogram">>, macd(t))
    [] m = "adx"        -> Columns(t, <<"adx", "plus_di", "minus_di">>, adx(t))
    [] m = "ichimoku"   -> Columns(t, <<"tenkan_sen", "kijun_sen", "senkou_span_a",
                                        "senkou_span_b", "chikou_span">>, ichimoku(t))
    [] m = "rsi"        -> OneColumn(t, m, rsi(t, 14))
    [] m = "stochastic" -> Columns(t, <<"stoch_k", "stoch_d">>, stochastic(t))
    [] m = "williams_r" -> OneColumn(t, m, williams_r(t))
    [] m = "cci"        -> OneColumn(t, m, cci(t))
    [] m = "roc"        -> OneColumn(t, m, roc(t))
    [] m = "momentum"   -> OneColumn(t, m, momentum(t))
    [] m = "tsi"        -> OneColumn(t, m, tsi(t))
    [] m = "awesome_oscillator" -> OneColumn(t, m, awesome_oscillator(t))
    [] m = "atr"        -> OneColumn(t, m, atr(t, 14))
    [] m = "bollinger_bands" ->
         Columns(t, <<"bb_upper", "bb_middle", "bb_lower", "bb_bandwidth",
                      "bb_percent_b">>, bollinger_bands(t))
    [] m = "historical_volatility" -> OneColumn(t, m, historical_volatility(t))
    [] m = "obv"        -> OneColumn(t, m, obv(t))
    [] m = "ad_line"    -> OneColumn(t, m, ad_line(t))
    [] m = "cmf"        -> OneColumn(t, m, cmf(t))
    [] m = "mfi"        -> OneColumn(t, m, mfi(t))
    [] m = "force_index" -> OneColumn(t, m, force_index(t))
    [] m = "aroon"      -> Columns(t, <<"aroon_up", "aroon_down", "aroon_osc">>,
                                   aroon(t))
    [] m = "choppiness_index" -> OneColumn(t, m, choppiness_index(t))
    [] OTHER            -> Columns(t, <<"bull_power", "bear_power">>, elder_ray(t))

\* ---------------------------------------------------- the state machine
\* A caller holds one OHLCV table and calls into the engine.
VARIABLES
  input,       \* the caller's table (DataFrame object 0) as it is now
  orig,        \* the contents of the table when the caller built it
  cut,         \* the caller also holds the first `cut` rows as a second table (0: no)
  indicators,  \* the TechnicalIndicators object the caller built: [built, df]
  engineer,    \* the FeatureEngineer object the caller built: [built, df]
  schema,      \* the list object FeaturePipeline.FEATURE_COLUMNS
  held,        \* the list the caller got from get_feature_names: [got, ref]
  last,        \* the result of the last call
  lastT,       \* the result of the same call on the first `cut` rows
  calls,       \* the number of calls made so far that built a table or an object
  edits,       \* the number of edits the caller made to the list it holds
  training_jobs,         \* the dict training_jobs of the training route, in insertion order
  background,            \* the run_training tasks added and not yet started (job ids)
  task,                  \* the job whose run_training occupies the event loop (0: none)
  replies,               \* the responses of POST /train so far
  model_file,            \* MODEL_FILE on disk: missing, recent (under 7 days) or old
  training_in_progress,  \* TrainingScheduler.training_in_progress
  pc,                    \* where each thread stands in its scheduler method
  outcome,               \* how the last call of each thread ended
  runs                   \* the number of calls each thread made so far

engine ==
  <<input, orig, cut, indicators, engineer, schema, held, last, lastT, calls, edits>>
routes == <<training_jobs, background, task, replies, model_file>>
scheduler == <<training_in_progress, pc, outcome, runs>>
service == <<routes, scheduler>>
vars == <<engine, service>>

MaxCalls == 2
MaxLongCalls == 1
MaxEdits == 1

\* the calls left to a caller; tables of a year or more get MaxLongCalls
CanCall ==
  calls < (IF NRows(orig) >= min_data_points THEN MaxLongCalls ELSE MaxCalls)

\* the threads that call into the one TrainingScheduler object
Threads == {"scheduler", "executor"}

\* the training route and the scheduler before any request or call, with
\* MODEL_FILE in state f
Quiet(f) ==
  /\ training_jobs = <<>>
  /\ background = {}
  /\ task = 0
  /\ replies = <<>>
  /\ model_file = f
  /\ training_in_progress = FALSE
  /\ pc = [t \in Threads |-> "idle"]
  /\ outcome = [t \in Threads |-> "none"]
  /\ runs = [t \in Threads |-> 0]

NoObject == [built |-> FALSE, df |-> EmptyTable]
Caller(t, k) ==
  /\ input = t
  /\ orig = t
  /\ cut = k
  /\ indicators = NoObject
  /\ engineer = NoObject
  /\ schema = ListRef(FEATURE_COLUMNS, 0)
  /\ held = [got |-> FALSE, ref |-> ListRef(<<>>, 0)]
  /\ last = NoCall
  /\ lastT = NoCall
  /\ calls = 0
  /\ edits = 0
Start(t, k) == Caller(t, k) /\ Quiet("missing")

\* the second table of the caller: the first `cut` rows of t
Truncated(t) == HeadRows(t, cut)

\* generate_features handed back g
GfDone(g, include_target) ==
  /\ last' = GfResult(g, include_target)
  /\ input' = g.caller
\* the call r = [exc, out, arg] on the caller's table returned or raised
Done(op, r) ==
  /\ last' = Called(op, r)
  /\ input' = r.arg.tbl

\* pipeline.generate_features(df, include_target), with either value of
\* include_target, on the caller's table and on its first `cut` rows
GenerateFeatures ==
  /\ CanCall
  /\ \E p \in {FeatureSteps(Ref(input, 0))} :
       \E q \in {IF cut = 0 THEN p ELSE FeatureSteps(Ref(Truncated(input), 0))},
          include_target \in BOOLEAN :
         /\ GfDone(Handed(Ref(input, 0), p, include_target, schema.items),
                   include_target)
         /\ lastT' = IF cut = 0 THEN NoCall
                     ELSE GfResult(Handed(Ref(Truncated(input), 0), q, include_target,
                                          schema.items), include_target)
  /\ calls' = calls + 1
  /\ UNCHANGED <<orig, cut, indicators, engineer, schema, held, edits, service>>

\* names = pipeline.get_feature_names()
GetFeatureNames ==
  /\ held' = [got |-> TRUE, ref |-> get_feature_names(schema.items)]
  /\ last' = Result("get_feature_names", FALSE, "list", EmptyTable,
                   get_feature_names(schema.items).items, NoExc, "")
  /\ lastT' = NoCall
  /\ UNCHANGED <<input, orig, cut, indicators, engineer, schema, calls, edits, service>>

\* The caller edits the list it holds: names.append(x), names.pop() or
\* names.clear().  The class attribute changes with it when it is that object.
Edited(items, e) ==
  CASE e = "append" -> Append(items, "Target")
    [] e = "pop"    -> SubSeq(items, 1, Len(items) - 1)
    [] OTHER        -> <<>>
CallerEditsNames(e) ==
  /\ held.got
  /\ edits < MaxEdits
  /\ e = "pop" => held.ref.items # <<>>
  /\ held' = [held EXCEPT !.ref.items = Edited(@, e)]
  /\ schema' = IF held.ref.obj = schema.obj
               THEN [schema EXCEPT !.items = Edited(@, e)] ELSE schema
  /\ edits' = edits + 1
  /\ UNCHANGED <<input, orig, cut, indicators, engineer, last, lastT, calls, service>>

\* what a constructor call r leaves in the variable that holds the object `was`
Holding(r, was) == IF Raised(r) THEN was ELSE [built |-> TRUE, df |-> r.out.tbl]
\* TechnicalIndicators(df) returned the new object or raised
BuiltTI(r) ==
  /\ last' = Constructed("TechnicalIndicators", r)
  /\ indicators' = Holding(r, indicators)
  /\ input' = r.arg.tbl
\* FeatureEngineer(df) returned the new object or raised
BuiltFE(r) ==
  /\ last' = Constructed("FeatureEngineer", r)
  /\ engineer' = Holding(r, engineer)
  /\ input' = r.arg.tbl

\* ti = TechnicalIndicators(df)
NewTechnicalIndicators ==
  /\ CanCall
  /\ BuiltTI(TI_init(Ref(input, 0)))
  /\ lastT' = NoCall
  /\ calls' = calls + 1
  /\ UNCHANGED <<orig, cut, engineer, schema, held, edits, service>>

\* ti.<m>(), and the same method of an object built on the first `cut` rows
CallIndicator(m) ==
  /\ CanCall
  /\ indicators.built
  /\ last' = Result(m, FALSE, "DataFrame", Indicator(m, indicators.df), <<>>, NoExc, "")
  /\ lastT' = IF cut = 0 THEN NoCall
             ELSE Result(m, FALSE, "DataFrame", Indicator(m, Truncated(indicators.df)),
                         <<>>, NoExc, "")
  /\ calls' = calls + 1
  /\ UNCHANGED <<input, orig, cut, indicators, engineer, schema, held, edits, service>>

\* CandlestickPatternDetector().detect_all_patterns(df)
DetectAllPatterns ==
  /\ CanCall
  /\ Done("detect_all_patterns", detect_all_patterns(Ref(input, 0)))
  /\ lastT' = IF cut = 0 THEN NoCall
             ELSE Called("detect_all_patterns",
                         detect_all_patterns(Ref(Truncated(input), 0)))
  /\ calls' = calls + 1
  /\ UNCHANGED <<orig, cut, indicators, engineer, schema, held, edits, service>>

\* fe = FeatureEngineer(df)
NewFeatureEngineer ==
  /\ CanCall
  /\ BuiltFE(FE_init(Ref(input, 0)))
  /\ lastT' = NoCall
  /\ calls' = calls + 1
  /\ UNCHANGED <<orig, cut, indicators, schema, held, edits, service>>

\* the method call r on the FeatureEngineer object returned or raised
FeDone(op, r) ==
  /\ last' = Called(op, r)
  /\ engineer' = [engineer EXCEPT !.df = r.arg.tbl]

\* fe.create_all_features(), and the same on an object built on the first
\* `cut` rows; self.df is DataFrame object 1
CreateAllFeatures ==
  /\ CanCall
  /\ engineer.built
  /\ FeDone("create_all_features", create_all_features(Ref(engineer.df, 1)))
  /\ lastT' = IF cut = 0 THEN NoCall
             ELSE Called("create_all_features",
                         create_all_features(Ref(Truncated(engineer.df), 1)))
  /\ calls' = calls + 1
  /\ UNCHANGED <<input, orig, cut, indicators, schema, held, edits, service>>

\* The table fetch_historical_data hands to prepare_training_data: not empty,
\* the five lower-case columns, indexed by date.
Fetched(t) == t.cols = required /\ t.dates /\ NRows(t) > 0

\* collector.prepare_training_data(symbol), df being the table fetched for symbol
PrepareTrainingData ==
  /\ CanCall
  /\ Fetched(input)
  /\ Done("prepare_training_data", prepare_training_data(Ref(input, 0)))
  /\ lastT' = NoCall
  /\ calls' = calls + 1
  /\ UNCHANGED <<orig, cut, indicators, engineer, schema, held, edits, service>>

\* One draw of the 300 random daily bars from 2020-01-01 of get_feature_list
dummy_data ==
  [Frame(300, 5, required, TRUE, 0) EXCEPT
     !.index = Tab(300, LAMBDA i : 18262 + i - 1)]
feature_names == get_feature_list(dummy_data)

\* get_feature_list()
GetFeatureList ==
  /\ CanCall
  /\ last' = Result("get_feature_list", FALSE, "list", EmptyTable, feature_names,
                   NoExc, "")
  /\ lastT' = NoCall
  /\ calls' = calls + 1
  /\ UNCHANGED <<input, orig, cut, indicators, engineer, schema, held, edits, service>>

\* trainer.predict(df) up to the feature row X it hands to the models
Predict ==
  /\ CanCall
  /\ Done("predict", PredictionRow(Ref(input, 0)))
  /\ lastT' = NoCall
  /\ calls' = calls + 1
  /\ UNCHANGED <<orig, cut, indicators, engineer, schema, held, edits, service>>

\* ---------------------------------------------------- specifications
\* Construction of the two validating classes on tables of every column
\* naming, with and without a missing column, rows and NaN cells.
Namings ==
  {Title, Upper, required, Append(Title, "Date"), <<"Close", "Volume">>, <<>>}
    \cup {Without(Title, c) : c \in Range(required)}
    \cup {Without(required, c) : c \in {"close", "volume"}}
MaxRows == 2
ValidateTables ==
  {Frame(n, 1, nm, FALSE, h) : n \in 0..MaxRows, nm \in Namings, h \in 0..1}
InitValidate == \E t \in ValidateTables : Start(t, 0)
NextValidate == NewTechnicalIndicators \/ NewFeatureEngineer
SpecValidate == InitValidate /\ [][NextValidate]_vars

\* The feature pipeline on tables around the length it requires.
PipelineTables ==
  {Frame(n, 1, Title, FALSE, 0) : n \in {0, 3, min_data_points - 1}}
    \cup {Frame(1, 1, Without(Title, "close"), FALSE, 0),
          Frame(min_data_points - 1, 2, Upper, TRUE, 0),
          Frame(min_data_points + 1, 2, Title, TRUE, 0),
          Frame(min_data_points, 1, required, FALSE, 0),
          Frame(min_data_points, 1, Without(Title, "close"), FALSE, 0)}
InitPipeline == \E t \in PipelineTables : Start(t, 0)
NextPipeline ==
  \/ GenerateFeatures
  \/ GetFeatureNames
  \/ \E e \in {"append", "pop", "clear"} : CallerEditsNames(e)
SpecPipeline == InitPipeline /\ [][NextPipeline]_vars

\* pipeline.validate_features(df) on the caller's table (of = "input") or on the
\* table generate_features just returned (of = "output"); the result keeps the
\* table as it is after the call.
Validated(v, t, of) ==
  [valid |-> v.valid, what |-> v.what, of |-> of]
    @@ Result("validate_features", FALSE, "bool", t, v.cols, NoExc, v.log)
ValidateFeatures(of) ==
  /\ of = "output" => (last.op = "generate_features" /\ last.kind = "DataFrame")
  /\ last' = IF of = "input"
             THEN Validated(validate_features(input, schema.items), input, of)
             ELSE Validated(validate_features(last.tbl, schema.items), last.tbl, of)
  /\ lastT' = NoCall
  /\ UNCHANGED <<input, orig, cut, indicators, engineer, schema, held, calls, edits, service>>

\* A feature table of two rows: the schema columns but `drop`, a NaN in the
\* first row of the columns `nans`, +inf or -inf in the rows of the columns `infs`
FeatureTable(drop, nans, infs) ==
  [cols  |-> SelectSeq(FEATURE_COLUMNS, LAMBDA c : c \notin drop),
   index |-> <<0, 1>>,
   dates |-> FALSE,
   data  |-> <<>> @@ [c \in Range(FEATURE_COLUMNS) \ drop |->
               << IF c \in nans THEN NaN ELSE IF c \in infs THEN NInf ELSE Num(1),
                  IF c \in infs THEN PInf ELSE Num(2) >>]]
\* t with the volume v at every bar
WithVolume(t, v) == SetCol(t, "Volume", Tab(NRows(t), LAMBDA i : Num(v)))
\* t with every price at 50
FlatPrices(t) ==
  [t EXCEPT !.data = [c \in DOMAIN t.data |->
     IF c = "Volume" THEN t.data[c] ELSE Tab(NRows(t), LAMBDA i : Num(50))] @@ <<>>]

\* The pipeline and its validation: feature tables with defects, and price
\* series long enough for the pipeline.
CheckedTables ==
  {FeatureTable(drop, nans, infs) :
     drop \in {{}, {"RSI_14"}, {"ADX", "Breakout_Score"}},
     nans \in {{}, {"MACD"}, {"RSI_14", "Return_1D"}},
     infs \in {{}, {"OBV_Change"}, {"MACD", "ADX"}}}
    \cup {Frame(min_data_points + 1, 1, Title, FALSE, 0),
          WithVolume(Frame(min_data_points + 1, 3, Title, FALSE, 0), 1),
          WithVolume(Frame(min_data_points + 1, 1, Title, FALSE, 0), 0),
          FlatPrices(Frame(min_data_points + 1, 1, Title, FALSE, 0))}
InitChecked == \E t \in CheckedTables : Start(t, 0)
NextChecked ==
  \/ GenerateFeatures
  \/ \E of \in {"input", "output"} : ValidateFeatures(of)
SpecChecked == InitChecked /\ [][NextChecked]_vars

\* Every table-producing operation on a table and on its first rows.
TwinTables ==
  { <<Frame(min_data_points + 1, 1, Title, FALSE, 0), min_data_points>>,
    <<Frame(40, 2, required, FALSE, 0), 33>>,
    <<Frame(40, 3, required, TRUE, 0), 39>>,
    <<Frame(30, 4, required, FALSE, 5), 28>>,
    <<Frame(30, 1, Title, TRUE, 0), 29>> }
InitTwin == \E p \in TwinTables : Start(p[1], p[2])
NextTwin ==
  \/ GenerateFeatures
  \/ NewTechnicalIndicators
  \/ \E m \in Range(indicator_methods) : CallIndicator(m)
  \/ DetectAllPatterns
  \/ NewFeatureEngineer
  \/ CreateAllFeatures
SpecTwin == InitTwin /\ [][NextTwin]_vars

\* The entry points that compose features for training and prediction.
EngineerTables ==
  {Frame(n, 2, required, d, 0) : n \in {0, 1, 12}, d \in BOOLEAN}
    \cup {Frame(12, 3, Title, FALSE, 0), Frame(12, 3, Append(required, "date"), FALSE, 0),
          Frame(12, 1, Without(required, "volume"), TRUE, 0),
          Frame(min_data_points + 1, 1, Title, FALSE, 0)}
InitEngineer == \E t \in EngineerTables : Start(t, 0)
NextEngineer ==
  \/ GenerateFeatures
  \/ NewFeatureEngineer
  \/ CreateAllFeatures
  \/ PrepareTrainingData
  \/ GetFeatureList
  \/ Predict
SpecEngineer == InitEngineer /\ [][NextEngineer]_vars

\* =========================================================== properties
\* ---- input validation (SpecValidate)
constructors == {"TechnicalIndicators", "FeatureEngineer"}
\* the five required columns are present in t under case-insensitive matching
HasRequired(t) ==
  \A c \in Range(required) : \E x \in Range(t.cols) : Lower(x) = c
LowerCased(cols) == \A i \in 1..Len(cols) : Lower(cols[i]) = cols[i]

\* C8: a constructor succeeds exactly when open, high, low, close and volume
\* are all present under case-insensitive matching; on success the working
\* copy has the caller's column names lower-cased, in the caller's order; on
\* failure the ValueError names a required column that the table lacks.
C8_ValidationByColumns ==
  last.op \in constructors =>
    /\ (last.kind = "object") <=> HasRequired(orig)
    /\ last.kind = "object" =>
          /\ Len(last.tbl.cols) = Len(orig.cols)
          /\ \A i \in 1..Len(orig.cols) : last.tbl.cols[i] = Lower(orig.cols[i])
          /\ LowerCased(last.tbl.cols)
    /\ last.kind # "object" =>
          /\ last.kind = "raised"
          /\ last.exc.type = "ValueError"
          /\ last.exc.arg = "Missing required column: "
          /\ last.exc.col \in Range(required)
          /\ \A x \in Range(orig.cols) : Lower(x) # last.exc.col
\* a constructor accepted a table whose names were not lower-case
C8_AcceptedMixedCase ==
  /\ last.op \in constructors
  /\ last.kind = "object"
  /\ ~LowerCased(orig.cols)
  /\ NRows(orig) > 0
\* a constructor rejected a table that lacks a required column
C8_RejectedMissing ==
  /\ last.op \in constructors
  /\ last.kind = "raised"
  /\ ~HasRequired(orig)

\* some cell of the table is NaN
HasGap(t) == \E c \in DOMAIN t.data : \E i \in 1..NRows(t) : IsNaN(t.data[c][i])
\* C9: a constructor fails on a table with no rows even when it has the five
\* required columns, and a table with rows and the five columns is accepted
\* whether or not some of its cells are NaN.
C9_EmptyTableRejected ==
  last.op \in constructors =>
    /\ NRows(orig) = 0 => last.kind = "raised"
    /\ (NRows(orig) > 0 /\ HasRequired(orig)) => last.kind = "object"
\* a constructor accepted a table with the five columns and no rows
C9_EmptyAccepted ==
  /\ last.op \in constructors
  /\ NRows(orig) = 0
  /\ HasRequired(orig)
  /\ last.kind = "object"
\* a constructor accepted a table with a NaN close
C9_GapAccepted ==
  /\ last.op \in constructors
  /\ HasGap(orig)
  /\ last.kind = "object"

\* ---- the feature schema (SpecPipeline)
\* generate_features returned a table
GfTableOut == last.op = "generate_features" /\ last.kind = "DataFrame"
\* the names that the call asked for: the schema, and Target in training mode
Asked(include_target) ==
  FEATURE_COLUMNS \o (IF include_target THEN <<"Target">> ELSE <<>>)

\* C3 as stated: get_feature_names returns the same ordered list on every
\* call, whatever the caller did to earlier results, and the columns of every
\* table generate_features returns are exactly that list, in that order.
C3_ColumnsAreSchema ==
  /\ last.op = "get_feature_names" => last.list = FEATURE_COLUMNS
  /\ GfTableOut => last.tbl.cols = FEATURE_COLUMNS
\* C3, amended: get_feature_names returns the same ordered list on every
\* call, whatever the caller did to earlier results; the columns of a table
\* generate_features returns are that list in that order, followed by Target
\* when the call was made with include_target=True.
C3_SchemaStable ==
  /\ schema.items = FEATURE_COLUMNS
  /\ last.op = "get_feature_names" => last.list = FEATURE_COLUMNS
  /\ GfTableOut => last.tbl.cols = Asked(last.flag)
\* the caller edited a list it got, and then a table came back
C3_TableAfterEdit ==
  /\ GfTableOut
  /\ edits > 0
  /\ held.ref.items # FEATURE_COLUMNS
  /\ NRows(last.tbl) > 0

\* C7: generate_features never fails silently: a call that hit a missing
\* column or a failure inside a computation (the log record is an error) does
\* not hand back None, the outcome of a call on too short a table.
C7_FailureIsSignalled ==
  (last.op = "generate_features" /\ last.log = "error") => last.kind # "None"
\* a table of a year of bars without a close column came back as None
C7_SilentFailure ==
  /\ last.op = "generate_features"
  /\ NRows(orig) >= min_data_points
  /\ ~HasRequired(orig)
  /\ last.kind = "None"
  /\ last.exc = NoExc

\* ---- a table and its first rows (SpecTwin)
\* the cells of a and b agree wherever both have the row label and the
\* column, the columns `skip` aside
SameAtCommonRows(a, b, skip) ==
  \A j \in 1..NRows(b) : \A i \in 1..NRows(a) :
    a.index[i] = b.index[j] =>
      \A c \in (Range(a.cols) \cap Range(b.cols)) \ skip :
        a.data[c][i] = b.data[c][j]
CommonRows(a, b) ==
  {i \in 1..NRows(a) : \E j \in 1..NRows(b) : a.index[i] = b.index[j]}
BothTables == last.kind = "DataFrame" /\ lastT.kind = "DataFrame"
target_columns == {"Target", "target", "target_3d", "target_5d", "target_return"}

\* C1: truncation invariance: when generate_features or create_all_features
\* returns a table for a series and for the series cut after row t, every
\* non-target cell of a row that both tables contain is the same in both.
C1_TruncationInvariant ==
  (last.op \in {"generate_features", "create_all_features"} /\ BothTables) =>
    SameAtCommonRows(last.tbl, lastT.tbl, target_columns)
\* generate_features in inference mode returned rows for the series and for
\* the series without its last bar
C1_BothReturnedRows ==
  /\ last.op = "generate_features"
  /\ ~last.flag
  /\ BothTables
  /\ CommonRows(last.tbl, lastT.tbl) # {}
  /\ NRows(last.tbl) > NRows(lastT.tbl)

\* C5: every output of the indicator library and of the pattern detector is
\* causal: its value at row t is the same whether or not bars follow row t.
C5_IndicatorsCausal ==
  (last.op \in Range(indicator_methods) \cup {"detect_all_patterns"} /\ BothTables) =>
    SameAtCommonRows(last.tbl, lastT.tbl, {})
\* the same, the chikou span of ichimoku aside
C5_CausalButChikou ==
  (last.op \in Range(indicator_methods) \cup {"detect_all_patterns"} /\ BothTables) =>
    SameAtCommonRows(last.tbl, lastT.tbl, {"chikou_span"})
\* ichimoku gave a chikou span that changed with the bars after the row
C5_ChikouReadsAhead ==
  /\ last.op = "ichimoku"
  /\ BothTables
  /\ \E i \in 1..NRows(lastT.tbl) :
       last.tbl.data["chikou_span"][i] # lastT.tbl.data["chikou_span"][i]

\* C10: the caller's table is as the caller built it, whatever was called:
\* same rows, same values, same column names and order, same index.
C10_InputUnchanged == input = orig
\* an indicator object was built on a table with capitalised column names
\* and one of its methods returned
C10_IndicatorOnTitleCase ==
  /\ last.op \in Range(indicator_methods)
  /\ indicators.built
  /\ ~LowerCased(orig.cols)
  /\ NRows(last.tbl) > 0

\* ---- the entry points that compose features (SpecEngineer)
composers == {"generate_features", "create_all_features", "prepare_training_data"}
TargetsIn(names) == Range(names) \cap target_columns

\* C2: a composing entry point never returns a table for a series of fewer
\* than 252 bars, and generate_features does not report too short a series
\* for one of 252 bars or more.
C2_ShortSeriesRefused ==
  /\ (last.op \in composers /\ NRows(orig) < min_data_points) =>
       last.kind # "DataFrame"
  /\ (last.op = "generate_features" /\ NRows(orig) >= min_data_points) =>
       last.log # "warning"
\* the same, for generate_features alone
C2_PipelineRefusesShort ==
  /\ (last.op = "generate_features" /\ NRows(orig) < min_data_points) =>
       (last.kind = "None" /\ last.log = "warning")
  /\ (last.op = "generate_features" /\ NRows(orig) >= min_data_points) =>
       last.log # "warning"
\* create_all_features returned a filled table for a series of 12 bars
C2_ShortSeriesEngineered ==
  /\ last.op = "create_all_features"
  /\ NRows(orig) < min_data_points
  /\ last.kind = "DataFrame"
  /\ NRows(last.tbl) = NRows(orig)
  /\ NRows(orig) > 1

\* C4: no target column outside training mode: none in a table that
\* generate_features returns with include_target=False, none in a table of
\* create_all_features, none in the row handed to the model for prediction,
\* none in the list of feature names.
C4_NoTargetInInference ==
  /\ (GfTableOut /\ ~last.flag) => TargetsIn(last.tbl.cols) = {}
  /\ (last.op \in {"create_all_features", "predict"} /\ last.kind = "DataFrame") =>
       TargetsIn(last.tbl.cols) = {}
  /\ last.op = "get_feature_list" => TargetsIn(last.list) = {}
\* the part of C4 about generate_features and the prediction row
C4_PipelineAndRow ==
  /\ GfTableOut => (TargetsIn(last.tbl.cols) # {} <=> last.flag)
  /\ (last.op = "predict" /\ last.kind = "DataFrame") => TargetsIn(last.tbl.cols) = {}
\* the part of C4 about the list of feature names
C4_NamesWithoutTarget == last.op = "get_feature_list" => TargetsIn(last.list) = {}
\* the list of feature names held the four target columns
C4_TargetAmongNames ==
  /\ last.op = "get_feature_list"
  /\ TargetsIn(last.list) = {"target", "target_3d", "target_5d", "target_return"}

\* C6: a feature table has one row per input bar, under the same labels in
\* the same order as the input.
C6_OneRowPerBar ==
  (last.op \in composers /\ last.kind = "DataFrame") => last.tbl.index = orig.index
\* the same, for create_all_features alone
C6_EngineerKeepsRows ==
  (last.op = "create_all_features" /\ last.kind = "DataFrame") =>
    last.tbl.index = orig.index
\* generate_features returned fewer rows than the series has bars
C6_RowsDropped ==
  /\ GfTableOut
  /\ NRows(last.tbl) < NRows(orig)
\* prepare_training_data returned fewer rows than the series has bars
C6_TrainingRowsDropped ==
  /\ last.op = "prepare_training_data"
  /\ last.kind = "DataFrame"
  /\ NRows(last.tbl) < NRows(orig)

\* ------------------------------------------- the indicators on short series
\* Bars given column by column, indexed 0..n-1.
Bars(opens, highs, lows, closes, volumes) ==
  [cols  |-> required,
   index |-> Tab(Len(closes), LAMBDA i : i - 1),
   dates |-> FALSE,
   data  |-> <<>> @@ [c \in Range(required) |->
      CASE c = "open" -> opens [] c = "high" -> highs [] c = "low" -> lows
        [] c = "close" -> closes [] OTHER -> volumes]]
\* bars that open, peak, bottom and close at one price, on a constant volume
Ticks(closes, volume) ==
  Bars(closes, closes, closes, closes, Tab(Len(closes), LAMBDA i : volume))
\* closes 1, 2, ..., n
Ramp(n) == Ticks(Tab(n, LAMBDA i : Num(i)), Num(100))
\* closes n, n-1, ..., 1
Slide(n) == Ticks(Tab(n, LAMBDA i : Num(n + 1 - i)), Num(100))
Flat(n) == Ticks(Tab(n, LAMBDA i : Num(50)), Num(0))
\* closes of 50 throughout, on a volume of 1
Level(n) == Ticks(Tab(n, LAMBDA i : Num(50)), Num(1))
obv_example == Ticks(<<Num(10), Num(11), Num(10), Num(10), Num(12)>>, Num(100))
doji_bar ==
  Bars(<<Num(100)>>, <<Dec(10002, 100)>>, <<Dec(9999, 100)>>, <<Dec(10001, 100)>>,
       <<Num(100)>>)

thin_bar ==
  Bars(<<Num(100)>>, <<Dec(10002, 100)>>, <<Dec(9999, 100)>>, <<Dec(100001, 1000)>>,
       <<Num(100)>>)
\* the result of a call with a period: the result, and the period
Applied(op, period, tbl) ==
  [period |-> period] @@ Result(op, FALSE, "DataFrame", tbl, <<>>, NoExc, "")
\* the rest of a call on the indicator object that hands back one result
Counted ==
  /\ lastT' = NoCall
  /\ calls' = calls + 1
  /\ UNCHANGED <<input, orig, cut, indicators, engineer, schema, held, edits, service>>

periods == {1, 2, 3, 5, 14, 20}
\* ti.sma(p) and calculate_sma(ti.df['close'], p)
Sma(p) ==
  /\ CanCall
  /\ indicators.built
  /\ last' = Applied("sma", p,
       Columns(indicators.df, <<"sma", "calculate_sma">>,
               [sma |-> sma(indicators.df, p, "close"),
                calculate_sma |-> calculate_sma(Col(indicators.df, "close"), p)]))
  /\ Counted

\* ti.rsi(p) and calculate_rsi(df['close'], p), side by side
Rsi(p) ==
  /\ CanCall
  /\ indicators.built
  /\ last' = Applied("rsi", p,
       Columns(indicators.df, <<"rsi", "calculate_rsi">>,
               [rsi |-> rsi(indicators.df, p),
                calculate_rsi |-> calculate_rsi(Col(indicators.df, "close"), p)]))
  /\ Counted

\* ti.adx() and calculate_adx(high, low, close) with the directional movement
\* each of them forms on the way
Adx ==
  /\ CanCall
  /\ indicators.built
  /\ last' = Applied("adx", 14,
       Columns(indicators.df,
               <<"adx", "plus_dm", "minus_dm",
                 "calculate_adx", "calculate_plus_dm", "calculate_minus_dm">>,
               [adx |-> adx(indicators.df).adx,
                plus_dm |-> adx_dm(indicators.df).plus_dm,
                minus_dm |-> adx_dm(indicators.df).minus_dm,
                calculate_adx |->
                  calculate_adx(Col(indicators.df, "high"), Col(indicators.df, "low"),
                                Col(indicators.df, "close")),
                calculate_plus_dm |->
                  calculate_adx_dm(Col(indicators.df, "high"),
                                   Col(indicators.df, "low")).plus_dm,
                calculate_minus_dm |->
                  calculate_adx_dm(Col(indicators.df, "high"),
                                   Col(indicators.df, "low")).minus_dm]))
  /\ Counted

\* ti.stochastic() and calculate_stochastic(high, low, close), side by side
Stochastic ==
  /\ CanCall
  /\ indicators.built
  /\ last' = Applied("stochastic", 14,
       Columns(indicators.df, <<"stoch_k", "stoch_d", "Stochastic_K", "Stochastic_D">>,
               [stoch_k |-> stochastic(indicators.df).stoch_k,
                stoch_d |-> stochastic(indicators.df).stoch_d,
                Stochastic_K |->
                  calculate_stochastic(Col(indicators.df, "high"),
                                       Col(indicators.df, "low"),
                                       Col(indicators.df, "close")).k,
                Stochastic_D |->
                  calculate_stochastic(Col(indicators.df, "high"),
                                       Col(indicators.df, "low"),
                                       Col(indicators.df, "close")).d]))
  /\ Counted

\* ti.obv() and calculate_obv(df['close'], df['volume']), side by side
Obv ==
  /\ CanCall
  /\ indicators.built
  /\ last' = Applied("calculate_obv", 0,
       Columns(indicators.df, <<"obv", "calculate_obv">>,
               [obv |-> obv(indicators.df),
                calculate_obv |-> calculate_obv(Col(indicators.df, "close"),
                                                Col(indicators.df, "volume"))]))
  /\ Counted

\* ti.parabolic_sar(), with the locals of its loop after each row
ParabolicSar ==
  /\ CanCall
  /\ indicators.built
  /\ \E st \in {parabolic_sar_loop(indicators.df)} :
       last' = Applied("parabolic_sar", 0,
         Columns(indicators.df, <<"psar", "trend", "af", "ep">>,
                 [psar  |-> parabolic_sar(indicators.df),
                  trend |-> Tab(Len(st), LAMBDA i : Num(st[i].trend)),
                  af    |-> Tab(Len(st), LAMBDA i : st[i].af),
                  ep    |-> Tab(Len(st), LAMBDA i : st[i].ep)]))
  /\ Counted

\* ti.supertrend(p), multiplier 3.0
Supertrend(p) ==
  /\ CanCall
  /\ indicators.built
  /\ last' = Applied("supertrend", p,
       Columns(indicators.df, <<"supertrend", "direction">>,
               supertrend(indicators.df, p, Num(3))))
  /\ Counted

\* t with another past: before the last five rows, column c and the low are
\* 5 lower
OtherPast(t, c) ==
  [t EXCEPT !.data = [k \in DOMAIN t.data |->
     IF k \in {c, "low"}
     THEN Tab(NRows(t), LAMBDA i : IF i <= NRows(t) - 5 THEN Sub(t.data[k][i], Num(5))
                                   ELSE t.data[k][i])
     ELSE t.data[k]] @@ <<>>]
\* detect_all_patterns(df) on the caller's table and on the table with
\* another past
DetectOnOtherPast(c) ==
  /\ CanCall
  /\ NRows(input) > 5
  /\ Done("detect_all_patterns", detect_all_patterns(Ref(input, 0)))
  /\ lastT' = Called("detect_all_patterns",
                     detect_all_patterns(Ref(OtherPast(input, c), 0)))
  /\ calls' = calls + 1
  /\ UNCHANGED <<orig, cut, indicators, engineer, schema, held, edits, service>>

series_methods == {"obv", "ad_line", "cmf", "mfi"}

\* seven bars: the last with a long lower shadow under a small body, its
\* predecessor closing under the close five bars back
hanging_bars ==
  Bars(Tab(7, LAMBDA i : Num(100)),
       Tab(7, LAMBDA i : IF i = 7 THEN Dec(1012, 10) ELSE Dec(1005, 10)),
       Tab(7, LAMBDA i : IF i = 7 THEN Num(97) ELSE IF i = 6 THEN Dec(985, 10)
                         ELSE Dec(995, 10)),
       Tab(7, LAMBDA i : IF i = 7 THEN Num(101) ELSE IF i = 6 THEN Num(99)
                         ELSE Num(100)),
       Tab(7, LAMBDA i : Num(1)))
\* twenty bars: seventeen with a body of 1, then a falling bar with a body of
\* 2, a bar with a body of 0.2 and a rising bar that closes above the middle
\* of the falling one
star_bars ==
  Bars(Tab(20, LAMBDA i : IF i = 18 THEN Num(102) ELSE Num(100)),
       Tab(20, LAMBDA i : IF i = 18 THEN Dec(1025, 10) ELSE IF i = 19 THEN Dec(1005, 10)
                          ELSE IF i = 20 THEN Num(102) ELSE Dec(1015, 10)),
       Tab(20, LAMBDA i : Dec(995, 10)),
       Tab(20, LAMBDA i : IF i = 18 THEN Num(100) ELSE IF i = 19 THEN Dec(1002, 10)
                          ELSE IF i = 20 THEN Dec(1015, 10) ELSE Num(101)),
       Tab(20, LAMBDA i : Num(1)))
\* ten quiet bars around 100, a close of 105, then a bar from 60 to 120 that
\* closes at its high
breakout_bars ==
  Bars(Tab(12, LAMBDA i : IF i = 12 THEN Num(105) ELSE Num(100)),
       Tab(12, LAMBDA i : IF i = 12 THEN Num(120) ELSE IF i = 11 THEN Num(105)
                          ELSE Dec(1005, 10)),
       Tab(12, LAMBDA i : IF i = 12 THEN Num(60) ELSE IF i = 11 THEN Num(100)
                          ELSE Dec(995, 10)),
       Tab(12, LAMBDA i : IF i = 12 THEN Num(120) ELSE IF i = 11 THEN Num(105)
                          ELSE Num(100)),
       Tab(12, LAMBDA i : Num(1)))
SeriesTables ==
  {Ramp(30), Ramp(5), Slide(16), Flat(16), Level(16), obv_example, doji_bar,
   thin_bar, breakout_bars, hanging_bars, star_bars}
    \cup {Frame(n, seed, required, FALSE, hole) :
            n \in {1, 16, 20}, seed \in 1..3, hole \in {0, 2, 4}}
InitSeries == \E t \in SeriesTables : Start(t, 0)
NextSeries ==
  \/ NewTechnicalIndicators
  \/ \E p \in periods : Sma(p)
  \/ \E p \in periods : Rsi(p)
  \/ \E m \in series_methods : CallIndicator(m)
  \/ Adx
  \/ Stochastic
  \/ Obv
  \/ ParabolicSar
  \/ \E p \in {3, 10} : Supertrend(p)
  \/ DetectAllPatterns
  \/ \E c \in {"open", "close"} : DetectOnOtherPast(c)
SpecSeries == InitSeries /\ [][NextSeries]_vars

\* ------------------------------------------ the training route (SpecTraining)
\* POST /train and its background task share the dict training_jobs. Both are
\* coroutines of one event loop: start_training has no await and runs as one
\* step; run_training calls the synchronous trainer and holds the loop from
\* its first line to its last, so no handler runs while `task` is set. The
\* task added by a request starts only after the response has been sent.
MaxRequests == 3

ModelFiles == {"missing", "recent", "old"}

\* the jobs that are pending or running
Active(jobs) ==
  {j \in 1..Len(jobs) : jobs[j].status \in {"pending", "running"}}

\* start_training: the status code and the id of the job created (0: none);
\* ids are the first 8 characters of a uuid4, taken fresh here
start_training(jobs, force, file) ==
  IF \E j \in 1..Len(jobs) : jobs[j].status = "running"
    THEN [code |-> 409, job |-> 0]
  ELSE IF ~force /\ file = "recent"
    THEN [code |-> 400, job |-> 0]
  ELSE [code |-> 200, job |-> Len(jobs) + 1]

\* POST /train {force}
StartTraining(force) ==
  /\ task = 0
  /\ Len(replies) < MaxRequests
  /\ \E r \in {start_training(training_jobs, force, model_file)} :
       /\ replies' = Append(replies, [code |-> r.code, job |-> r.job,
                                      busy |-> Active(training_jobs) # {}])
       /\ training_jobs' =
            IF r.code = 200
              THEN Append(training_jobs, [status |-> "pending", progress |-> 0])
              ELSE training_jobs
       /\ background' = IF r.code = 200 THEN background \cup {r.job} ELSE background
  /\ UNCHANGED <<task, model_file, scheduler, engine>>

\* the background task of job j starts: run_training up to trainer.train
RunTraining(j) ==
  /\ task = 0
  /\ j \in background
  /\ background' = background \ {j}
  /\ task' = j
  /\ training_jobs' =
       [training_jobs EXCEPT ![j] = [status |-> "running", progress |-> 10]]
  /\ UNCHANGED <<replies, model_file, scheduler, engine>>

\* the trainer reports progress p (in hundredths) through progress_callback
ProgressCallback(p) ==
  /\ task # 0
  /\ training_jobs[task].progress < p
  /\ training_jobs' = [training_jobs EXCEPT ![task].progress = p]
  /\ UNCHANGED <<background, task, replies, model_file, scheduler, engine>>

\* trainer.train returned: it saved MODEL_FILE, and the job is completed
TrainerReturns ==
  /\ task # 0
  /\ training_jobs' =
       [training_jobs EXCEPT ![task] = [status |-> "completed", progress |-> 100]]
  /\ model_file' = "recent"
  /\ task' = 0
  /\ UNCHANGED <<background, replies, scheduler, engine>>

\* trainer.train raised, before or after it saved MODEL_FILE: the job failed
TrainerRaises ==
  /\ task # 0
  /\ training_jobs' = [training_jobs EXCEPT ![task].status = "failed"]
  /\ model_file' \in {model_file, "recent"}
  /\ task' = 0
  /\ UNCHANGED <<background, replies, scheduler, engine>>

\* a week passes over the saved model
ModelFileAges ==
  /\ model_file = "recent"
  /\ model_file' = "old"
  /\ UNCHANGED <<training_jobs, background, task, replies, scheduler, engine>>

InitTraining == \E f \in ModelFiles : Caller(EmptyTable, 0) /\ Quiet(f)
NextTraining ==
  \/ \E force \in BOOLEAN : StartTraining(force)
  \/ \E j \in 1..MaxRequests : RunTraining(j)
  \/ \E p \in {50, 95} : ProgressCallback(p)
  \/ TrainerReturns
  \/ TrainerRaises
  \/ ModelFileAges
SpecTraining == InitTraining /\ [][NextTraining]_vars

\* ---------------------------------------- the scheduler (SpecScheduler)
\* One TrainingScheduler object is called from two threads: the daemon thread
\* of _scheduler_loop runs _run_training_job, a thread of the executor runs
\* force_train_now. Neither method takes a lock, so the threads interleave
\* between any two accesses of training_in_progress.
MaxRuns == 2

\* _run_training_job up to its two early returns: the scheduler thread reads
\* training_in_progress and asks whether today is a market day
RunTrainingJob ==
  /\ pc["scheduler"] = "idle"
  /\ runs["scheduler"] < MaxRuns
  /\ runs' = [runs EXCEPT !["scheduler"] = @ + 1]
  /\ \E market_day \in BOOLEAN :
       IF training_in_progress
         THEN pc' = pc /\ outcome' = [outcome EXCEPT !["scheduler"] = "skipped"]
       ELSE IF ~market_day
         THEN pc' = pc /\ outcome' = [outcome EXCEPT !["scheduler"] = "weekend"]
       ELSE /\ pc' = [pc EXCEPT !["scheduler"] = "checked"]
            /\ outcome' = [outcome EXCEPT !["scheduler"] = "none"]
  /\ UNCHANGED <<training_in_progress, routes, engine>>

\* force_train_now up to its early return: the executor thread reads
\* training_in_progress
ForceTrainNow ==
  /\ pc["executor"] = "idle"
  /\ runs["executor"] < MaxRuns
  /\ runs' = [runs EXCEPT !["executor"] = @ + 1]
  /\ IF training_in_progress
       THEN /\ pc' = pc
            /\ outcome' = [outcome EXCEPT !["executor"] = "Training already in progress"]
       ELSE /\ pc' = [pc EXCEPT !["executor"] = "checked"]
            /\ outcome' = [outcome EXCEPT !["executor"] = "none"]
  /\ UNCHANGED <<training_in_progress, routes, engine>>

\* self.training_in_progress = True, and the thread enters run_daily_training
SetInProgress(t) ==
  /\ pc[t] = "checked"
  /\ training_in_progress' = TRUE
  /\ pc' = [pc EXCEPT ![t] = "training"]
  /\ UNCHANGED <<outcome, runs, routes, engine>>

\* run_daily_training of thread t ends with result e; only the scheduled
\* job (force=False) can find the model up to date
RunDailyTraining(t, e) ==
  /\ pc[t] = "training"
  /\ e = "up to date" => t = "scheduler"
  /\ pc' = [pc EXCEPT ![t] = "finally"]
  /\ outcome' = [outcome EXCEPT ![t] = e]
  /\ UNCHANGED <<training_in_progress, runs, routes, engine>>

\* finally: self.training_in_progress = False
Finally(t) ==
  /\ pc[t] = "finally"
  /\ training_in_progress' = FALSE
  /\ pc' = [pc EXCEPT ![t] = "idle"]
  /\ UNCHANGED <<outcome, runs, routes, engine>>

InitScheduler == Start(EmptyTable, 0)
NextScheduler ==
  \/ RunTrainingJob
  \/ ForceTrainNow
  \/ \E t \in Threads : SetInProgress(t)
  \/ \E t \in Threads, e \in {"success", "up to date", "failed"} : RunDailyTraining(t, e)
  \/ \E t \in Threads : Finally(t)
SpecScheduler == InitScheduler /\ [][NextScheduler]_vars

\* ---- the indicators on short series (SpecSeries)
\* v is the mean of rows lo..hi of s, to the last digit kept
IsMean(v, s, lo, hi) ==
  /\ IsNum(v)
  /\ AbsI(v.v * (hi - lo + 1) - SumV(s, lo, hi)) < hi - lo + 1
\* w is the p-bar simple moving average of the closes
IsSma(w, closes, p) ==
  /\ Len(w) = Len(closes)
  /\ \A i \in 1..Len(closes) :
       IF i < p THEN IsNaN(w[i])
       ELSE IF AllNum(closes, i - p + 1, i) THEN IsMean(w[i], closes, i - p + 1, i)
       ELSE IsNaN(w[i])

\* C11: sma(p), in the indicator library and in the pipeline, returns a
\* series as long as the input, undefined at rows 0..p-2 and equal to the mean
\* of the p most recent closes from row p-1 on; for the closes 1, 2, ..., 30,
\* sma(20) is 10.5 at row 19.
C11_SmaIsWindowMean ==
  last.op = "sma" =>
    \A c \in {"sma", "calculate_sma"} :
      /\ IsSma(last.tbl.data[c], Col(orig, "close"), last.period)
      /\ (orig = Ramp(30) /\ last.period = 20) => last.tbl.data[c][20] = Dec(105, 10)
\* sma(20) of the closes 1..30: undefined at row 18, 10.5 at row 19
C11_SmaOfRamp ==
  /\ last.op = "sma"
  /\ orig = Ramp(30)
  /\ last.period = 20
  /\ IsNaN(last.tbl.data["sma"][19])
  /\ last.tbl.data["sma"][20] = Dec(105, 10)
  /\ last.tbl.data["calculate_sma"][30] = Dec(205, 10)

\* the change of the closes at row j that the averages of RSI count: the
\* difference when both closes are numbers, nothing otherwise
Change(closes, j) ==
  IF j > 1 /\ IsNum(closes[j]) /\ IsNum(closes[j - 1])
  THEN closes[j].v - closes[j - 1].v ELSE 0
\* rows lo..hi hold no loss and at least one gain
GainsOnly(closes, lo, hi) ==
  /\ \A j \in lo..hi : Change(closes, j) >= 0
  /\ \E j \in lo..hi : Change(closes, j) > 0
\* the first row that has weight in the average ewm(com = p - 1) forms at row
\* i: with com = 0 every row before i has weight 0
Weighed(p, i) == IF p = 1 THEN i ELSE 1
Percent(v) == IsNaN(v) \/ (IsNum(v) /\ v.v >= 0 /\ v.v <= 100 * SCALE)

\* C12: every defined RSI value lies in [0, 100], and where the average loss
\* is zero and the average gain positive the RSI is exactly 100, in the
\* rolling-mean implementation (window of p rows) and in the exponentially
\* weighted one (all rows so far, from row p-1 on).
C12_RsiWithinPercent ==
  last.op = "rsi" =>
    \A i \in 1..NRows(orig) :
      /\ Percent(last.tbl.data["rsi"][i])
      /\ Percent(last.tbl.data["calculate_rsi"][i])
      /\ (i >= last.period /\ GainsOnly(Col(orig, "close"), i - last.period + 1, i))
           => last.tbl.data["rsi"][i] = Num(100)
      /\ (i >= last.period /\ GainsOnly(Col(orig, "close"), Weighed(last.period, i), i))
           => last.tbl.data["calculate_rsi"][i] = Num(100)
\* RSI(14) of the closes 1..30 is 100 at the last row, and RSI(14) of the
\* closes 17, 16, ..., 2 is 0
C12_RsiSaturates ==
  /\ last.op = "rsi"
  /\ last.period = 14
  /\ \/ /\ orig = Ramp(30)
        /\ last.tbl.data["rsi"][30] = Num(100)
        /\ last.tbl.data["calculate_rsi"][30] = Num(100)
     \/ /\ orig = Slide(16)
        /\ last.tbl.data["rsi"][16] = Num(0)
        /\ last.tbl.data["calculate_rsi"][16] = Num(0)

\* w follows the on-balance-volume recurrence over the bars where the close
\* and the close before it are numbers
IsObv(w, close, volume) ==
  /\ Len(w) = Len(close)
  /\ w[1] = volume[1]
  /\ \A i \in 2..Len(close) :
       (IsNum(close[i]) /\ IsNum(close[i - 1])) =>
         w[i] = Fix(w[i - 1].v + SgnI(close[i].v - close[i - 1].v) * volume[i].v)

\* C13: OBV[0] = volume[0] and, from the second bar on, OBV adds the bar's
\* volume on a higher close, subtracts it on a lower close and holds on an
\* equal close; closes 10, 11, 10, 10, 12 with volumes of 100 give
\* 100, 200, 100, 100, 200.
C13_ObvRecurrence ==
  last.op = "obv" =>
    /\ IsObv(last.tbl.data["obv"], Col(orig, "close"), Col(orig, "volume"))
    /\ orig = obv_example =>
         last.tbl.data["obv"] = <<Num(100), Num(200), Num(100), Num(100), Num(200)>>
\* OBV of the example holds at the equal close and ends at 200
C13_ObvOfExample ==
  /\ last.op = "obv"
  /\ orig = obv_example
  /\ last.tbl.data["obv"][3] = last.tbl.data["obv"][4]
  /\ last.tbl.data["obv"][5] = Num(200)

\* the bars of rows lo..hi whose high equals their low
FlatBar(t, lo, hi) ==
  {j \in lo..hi : IsNum(Col(t, "high")[j]) /\ Col(t, "high")[j] = Col(t, "low")[j]}

\* C18: an undefined intermediate value is never replaced by zero: RSI(p) is
\* undefined on every row preceded by fewer than p price changes (the first
\* row has none), and the A/D line at a bar with high = low, like Chaikin
\* Money Flow over a window holding such a bar, is undefined.
C18_UndefinedNotZeroed ==
  /\ last.op = "rsi" =>
       \A i \in 1..NRows(orig) : i - 1 < last.period =>
         /\ IsNaN(last.tbl.data["rsi"][i])
         /\ IsNaN(last.tbl.data["calculate_rsi"][i])
  /\ last.op = "ad_line" =>
       \A i \in FlatBar(orig, 1, NRows(orig)) : IsNaN(last.tbl.data["ad_line"][i])
  /\ last.op = "cmf" =>
       \A i \in 20..NRows(orig) :
         FlatBar(orig, i - 19, i) # {} => IsNaN(last.tbl.data["cmf"][i])
\* what holds instead: RSI(p) is undefined on the rows before row p-1
C18_RsiWarmUp ==
  last.op = "rsi" =>
    \A i \in 1..NRows(orig) : i < last.period =>
      /\ IsNaN(last.tbl.data["rsi"][i])
      /\ IsNaN(last.tbl.data["calculate_rsi"][i])
\* RSI(14) has a value at row 13, after 13 price changes
C18_RsiCountsFirstChange ==
  /\ last.op = "rsi"
  /\ last.period = 14
  /\ NRows(orig) >= 14
  /\ IsNum(last.tbl.data["rsi"][14])
  /\ IsNum(last.tbl.data["calculate_rsi"][14])
\* the A/D line has the value 0 at a bar with high = low
C18_FlatBarCountsZero ==
  /\ last.op = "ad_line"
  /\ FlatBar(orig, 1, 1) # {}
  /\ last.tbl.data["ad_line"][1] = Num(0)
\* Chaikin Money Flow has a value over a window of bars with high = low
C18_FlatWindowHasFlow ==
  /\ last.op = "cmf"
  /\ NRows(orig) >= 20
  /\ FlatBar(orig, 1, 20) # {}
  /\ IsNum(last.tbl.data["cmf"][20])

\* the up-move and the down-move of bar i (0 at the first bar)
UpMove(t, i) == IF i = 1 THEN 0 ELSE Col(t, "high")[i].v - Col(t, "high")[i - 1].v
DownMove(t, i) == IF i = 1 THEN 0 ELSE Col(t, "low")[i - 1].v - Col(t, "low")[i].v
\* plus and minus are the directional movement of bar i of t
IsMovement(plus, minus, t, i) ==
  /\ plus = Fix(IF UpMove(t, i) > DownMove(t, i) /\ UpMove(t, i) > 0
                THEN UpMove(t, i) ELSE 0)
  /\ minus = Fix(IF DownMove(t, i) > UpMove(t, i) /\ DownMove(t, i) > 0
                 THEN DownMove(t, i) ELSE 0)
  /\ plus.v >= 0
  /\ minus.v >= 0
  /\ plus.v = 0 \/ minus.v = 0

\* C19: in both ADX implementations +DM is the up-move where it exceeds the
\* down-move and 0, else 0, and -DM is the down-move where it exceeds the
\* up-move and 0, else 0; neither is negative and they are never both non-zero.
C19_DirectionalMovement ==
  last.op = "adx" =>
    \A i \in 1..NRows(orig) :
      /\ IsMovement(last.tbl.data["plus_dm"][i], last.tbl.data["minus_dm"][i], orig, i)
      /\ IsMovement(last.tbl.data["calculate_plus_dm"][i],
                    last.tbl.data["calculate_minus_dm"][i], orig, i)
\* what holds: the rule in TechnicalIndicators.adx; in calculate_adx +DM and
\* -DM are never both non-zero
C19_LibraryMovement ==
  last.op = "adx" =>
    \A i \in 1..NRows(orig) :
      /\ IsMovement(last.tbl.data["plus_dm"][i], last.tbl.data["minus_dm"][i], orig, i)
      /\ \/ last.tbl.data["calculate_plus_dm"][i] = Num(0)
         \/ last.tbl.data["calculate_minus_dm"][i] = Num(0)
\* calculate_adx forms a negative -DM at a bar whose low rises
C19_NegativeMinusDm ==
  /\ last.op = "adx"
  /\ \E i \in 2..NRows(orig) :
       /\ DownMove(orig, i) < 0
       /\ last.tbl.data["calculate_minus_dm"][i] = Fix(DownMove(orig, i))
       /\ last.tbl.data["minus_dm"][i] = Num(0)
\* calculate_adx keeps an up-move smaller than the down-move of the bar
C19_PlusDmUnderDownMove ==
  /\ last.op = "adx"
  /\ \E i \in 2..NRows(orig) :
       /\ UpMove(orig, i) > 0
       /\ DownMove(orig, i) > UpMove(orig, i)
       /\ last.tbl.data["calculate_plus_dm"][i] = Fix(UpMove(orig, i))

\* raw %K: 100 * (close - lowest low) / (highest high - lowest low) over 14 bars
RawK(t) ==
  SDiv(MulC(SSub(Col(t, "close"), RollingMin(Col(t, "low"), 14)), Num(100)),
       SSub(RollingMax(Col(t, "high"), 14), RollingMin(Col(t, "low"), 14)))

\* C20: in the indicator library and in the pipeline the reported %K is the
\* 3-bar mean of raw %K and %D is the 3-bar mean of that smoothed %K.
C20_StochasticSmoothed ==
  last.op = "stochastic" =>
    /\ IsSma(last.tbl.data["stoch_k"], RawK(orig), 3)
    /\ IsSma(last.tbl.data["stoch_d"], last.tbl.data["stoch_k"], 3)
    /\ IsSma(last.tbl.data["Stochastic_K"], RawK(orig), 3)
    /\ IsSma(last.tbl.data["Stochastic_D"], last.tbl.data["Stochastic_K"], 3)
\* what holds: the library smooths %K; the pipeline reports raw %K and takes
\* %D as the 3-bar mean of raw %K
C20_LibrarySmoothed ==
  last.op = "stochastic" =>
    /\ IsSma(last.tbl.data["stoch_k"], RawK(orig), 3)
    /\ IsSma(last.tbl.data["stoch_d"], last.tbl.data["stoch_k"], 3)
    /\ last.tbl.data["Stochastic_K"] = RawK(orig)
    /\ IsSma(last.tbl.data["Stochastic_D"], RawK(orig), 3)
\* a bar where the pipeline's %K is raw %K and differs from the smoothed %K,
\* and its %D differs from the library's
C20_PipelineReportsRaw ==
  /\ last.op = "stochastic"
  /\ NRows(orig) = 20
  /\ IsNum(last.tbl.data["stoch_d"][20])
  /\ last.tbl.data["Stochastic_K"][20] = RawK(orig)[20]
  /\ last.tbl.data["Stochastic_K"][20] # last.tbl.data["stoch_k"][20]
  /\ last.tbl.data["Stochastic_D"][20] # last.tbl.data["stoch_d"][20]

single_candle ==
  {"doji", "long_legged_doji", "dragonfly_doji", "gravestone_doji", "hammer",
   "inverted_hammer", "hanging_man", "shooting_star", "bullish_marubozu",
   "bearish_marubozu", "spinning_top", "high_wave", "bullish_belt_hold",
   "bearish_belt_hold"}
\* the body of bar i of t is under a tenth of its range
ThinBody(t, i) ==
  10 * AbsI(Col(t, "close")[i].v - Col(t, "open")[i].v)
    < Col(t, "high")[i].v - Col(t, "low")[i].v
Priced(t, i) == \A c \in {"open", "high", "low", "close"} : IsNum(Col(t, c)[i])

\* C14: for the bar open = 100, close = 100.01, high = 100.02, low = 99.99
\* the detector flags doji = 1 and every other single-candle pattern 0.
C14_DojiFlagged ==
  (last.op = "detect_all_patterns" /\ orig = doji_bar) =>
    \A p \in single_candle :
      last.tbl.data[p][1] = (IF p = "doji" THEN Num(1) ELSE Num(0))
\* C14, amended: the body of that bar is a third of its range, and the
\* detector flags every single-candle pattern, doji included, as 0; doji is 1
\* exactly at the bars whose body is under a tenth of their range.
C14_ThirdBodyNotDoji ==
  last.op = "detect_all_patterns" /\ last.kind = "DataFrame" =>
    /\ orig = doji_bar => \A p \in single_candle : last.tbl.data[p][1] = Num(0)
    /\ \A i \in 1..NRows(orig) : Priced(orig, i) =>
         last.tbl.data["doji"][i] = (IF ThinBody(orig, i) THEN Num(1) ELSE Num(0))
\* the detector ran on the bar and flagged no doji
C14_BarNotDoji ==
  /\ last.op = "detect_all_patterns"
  /\ orig = doji_bar
  /\ last.tbl.data["doji"][1] = Num(0)
  /\ ~ThinBody(orig, 1)
\* a bar with open = 100 and close = 100.001 in the same range is a doji
C14_ThinBarIsDoji ==
  /\ last.op = "detect_all_patterns"
  /\ orig = thin_bar
  /\ last.tbl.data["doji"][1] = Num(1)

\* the patterns whose name contains 'engulfing' or 'star'
double_weight ==
  {"bullish_engulfing", "bearish_engulfing", "shooting_star", "morning_star",
   "evening_star", "morning_doji_star", "evening_doji_star", "bullish_tri_star",
   "bearish_tri_star"}
\* the weighted count of the flags `names` that fire at row i of the table t
RECURSIVE Fired(_, _, _, _)
Fired(t, names, i, k) ==
  IF k > Len(names) THEN 0
  ELSE (IF t.data[names[k]][i] = Num(1)
        THEN (IF names[k] \in double_weight THEN 2 ELSE 1) ELSE 0)
       + Fired(t, names, i, k + 1)
\* v is (b - r) / (b + r + 1) * 100 to the digits kept: the quotient is
\* rounded before it is multiplied by 100
IsScore(v, b, r) ==
  /\ IsNum(v)
  /\ AbsI(v.v * (b + r + 1) - (b - r) * 100 * SCALE) < 100 * (b + r + 1)
  /\ (b = 0 /\ r = 0) => v = Num(0)
  /\ v.v > -100 * SCALE
  /\ v.v < 100 * SCALE

\* C15: at every bar pattern_score = (B - R) / (B + R + 1) * 100 for the
\* weighted counts B and R of the bullish and bearish flags firing there
\* (weight 2 for names containing 'engulfing' or 'star', else 1); it is 0
\* when no pattern fires and lies strictly between -100 and 100.
C15_PatternScore ==
  last.op = "detect_all_patterns" /\ last.kind = "DataFrame" =>
    \A i \in 1..NRows(orig) :
      /\ last.tbl.data["bullish_pattern_score"][i]
           = Num(Fired(last.tbl, bullish_patterns, i, 1))
      /\ last.tbl.data["bearish_pattern_score"][i]
           = Num(Fired(last.tbl, bearish_patterns, i, 1))
      /\ IsScore(last.tbl.data["pattern_score"][i],
                 Fired(last.tbl, bullish_patterns, i, 1),
                 Fired(last.tbl, bearish_patterns, i, 1))
\* a table with a bar where only a double-weight pattern side fires, a bar
\* with a negative score and a bar with score 0
C15_ScoresOfBothSigns ==
  /\ last.op = "detect_all_patterns"
  /\ last.kind = "DataFrame"
  /\ \E i \in 1..NRows(orig) :
       /\ Fired(last.tbl, bullish_patterns, i, 1) >= 2
       /\ Fired(last.tbl, bearish_patterns, i, 1) = 0
       /\ last.tbl.data["pattern_score"][i].v > 0
  /\ \E i \in 1..NRows(orig) : last.tbl.data["pattern_score"][i].v < 0
  /\ \E i \in 1..NRows(orig) : last.tbl.data["pattern_score"][i] = Num(0)

\* ---- the validation of feature tables (SpecChecked)
\* the defects of the table t, in the order of the schema and of the columns
MissingIn(t) == SelectSeq(FEATURE_COLUMNS, LAMBDA c : c \notin Range(t.cols))
NanIn(t) == SelectSeq(t.cols, LAMBDA c : \E i \in 1..NRows(t) : IsNaN(t.data[c][i]))
InfIn(t) == SelectSeq(t.cols, LAMBDA c : \E i \in 1..NRows(t) : IsInf(t.data[c][i]))
Sound(t) == MissingIn(t) = <<>> /\ NanIn(t) = <<>> /\ InfIn(t) = <<>>
\* the list the call reported under the message `what` (none: the empty list)
Reported(what) == IF last.what = what THEN last.list ELSE <<>>
\* the table the call worked on, as it was before the call
Checked == IF last.of = "input" THEN orig ELSE last.tbl

\* C16: validate reports the valid flag and the lists of missing schema
\* columns, of columns with NaN and of columns with +/-inf, all three also
\* when more than one kind of defect is present; valid holds exactly when the
\* three lists are empty; the call neither raises nor alters the table.
C16_AllDefectsReported ==
  last.op = "validate_features" =>
    /\ Reported("Missing features") = MissingIn(Checked)
    /\ Reported("NaN values in") = NanIn(Checked)
    /\ Reported("Infinite values in") = InfIn(Checked)
    /\ last.valid <=> Sound(Checked)
    /\ last.kind # "raised"
    /\ last.tbl = Checked
    /\ input = orig
\* what holds: the call returns the flag alone, and the log names the first
\* kind of defect found (missing, then infinite, then NaN) and no other
C16_FirstDefectReported ==
  last.op = "validate_features" =>
    /\ last.valid <=> Sound(Checked)
    /\ last.kind = "bool"
    /\ last.tbl = Checked
    /\ input = orig
    /\ last.list = (IF MissingIn(Checked) # <<>> THEN MissingIn(Checked)
                    ELSE IF InfIn(Checked) # <<>> THEN InfIn(Checked)
                    ELSE NanIn(Checked))
\* a table with a missing column, a NaN and an infinite value: only the
\* missing column is reported
C16_OnlyMissingReported ==
  /\ last.op = "validate_features"
  /\ MissingIn(Checked) # <<>>
  /\ NanIn(Checked) # <<>>
  /\ InfIn(Checked) # <<>>
  /\ last.what = "Missing features"
  /\ ~last.valid
\* a complete table with NaN and infinite cells: the NaN columns go unreported
C16_NanUnreported ==
  /\ last.op = "validate_features"
  /\ MissingIn(Checked) = <<>>
  /\ NanIn(Checked) # <<>>
  /\ last.what = "Infinite values in"

\* C17: every table generate_features returns is accepted by
\* validate_features: it has every schema column and no NaN or +/-inf cell.
C17_OutputAccepted ==
  /\ (last.op = "generate_features" /\ last.kind = "DataFrame") => Sound(last.tbl)
  /\ (last.op = "validate_features" /\ last.of = "output") => last.valid
\* what holds: a returned table has every schema column and no NaN cell
C17_OutputCompleteNoNaN ==
  (last.op = "generate_features" /\ last.kind = "DataFrame") =>
    /\ MissingIn(last.tbl) = <<>>
    /\ NanIn(last.tbl) = <<>>
\* generate_features returned a row with an infinite OBV_Change and
\* validate_features rejected the table
C17_InfiniteObvChange ==
  /\ last.op = "validate_features"
  /\ last.of = "output"
  /\ ~last.valid
  /\ last.what = "Infinite values in"
  /\ "OBV_Change" \in Range(last.list)
  /\ NRows(last.tbl) > 0
\* for a series without volume generate_features returned a table without
\* rows, which validate_features accepted
C17_NoRowsAccepted ==
  /\ last.op = "validate_features"
  /\ last.of = "output"
  /\ last.valid
  /\ NRows(last.tbl) = 0
  /\ \A i \in 1..NRows(orig) : Col(orig, "Volume")[i] = Num(0)

\* row i set a new extreme point in the direction the trend had before it
NewExtreme(T, t, i) ==
  IF T["trend"][i - 1] = Num(1) THEN Gt(Col(t, "high")[i], T["ep"][i - 1])
  ELSE Lt(Col(t, "low")[i], T["ep"][i - 1])
Flipped(T, i) == T["trend"][i] # T["trend"][i - 1]

OrderedBars(t) ==
  \A i \in 1..NRows(t) : Le(Col(t, "low")[i], Col(t, "high")[i])
\* after bar i the stop is on the far side of price from the trend
FarSide(T, t, i) ==
  IF T["trend"][i] = Num(1) THEN Le(T["psar"][i], Col(t, "low")[i])
  ELSE Ge(T["psar"][i], Col(t, "high")[i])

\* C26: on a series with low <= high on every bar, after every bar i >= 2 the
\* SAR is at or below the low when the trend is up and at or above the high
\* when it is down.
C26_SarOnFarSide ==
  (last.op = "parabolic_sar" /\ OrderedBars(indicators.df)) =>
    \A i \in 3..NRows(last.tbl) : FarSide(last.tbl.data, indicators.df, i)
\* what holds: the same, on a series whose close of row 1 is a number too
C26_SarOnFarSideOfPricedBars ==
  (last.op = "parabolic_sar" /\ OrderedBars(indicators.df)
     /\ NRows(indicators.df) >= 2 /\ IsNum(Col(indicators.df, "close")[2])) =>
    \A i \in 3..NRows(last.tbl) : FarSide(last.tbl.data, indicators.df, i)
\* a series of ordered bars with flips both ways, the close of a later row
\* missing
C26_FlipsBothWays ==
  /\ last.op = "parabolic_sar"
  /\ OrderedBars(indicators.df)
  /\ NRows(indicators.df) >= 3
  /\ IsNum(Col(indicators.df, "close")[2])
  /\ \E i \in 3..NRows(last.tbl) : IsNaN(Col(indicators.df, "close")[i])
  /\ \E i \in 3..NRows(last.tbl) :
       Flipped(last.tbl.data, i) /\ last.tbl.data["trend"][i] = Num(1)
  /\ \E i \in 3..NRows(last.tbl) :
       Flipped(last.tbl.data, i) /\ last.tbl.data["trend"][i] = Num(-1)

\* C27: from row `period` on the direction of supertrend is 1 or -1, and over
\* two consecutive rows of direction 1 the line does not fall, over two of
\* direction -1 it does not rise.
C27_SupertrendRatchets ==
  last.op = "supertrend" =>
    \A i \in (last.period + 1)..NRows(last.tbl) :
      /\ last.tbl.data["direction"][i] \in {Num(1), Num(-1)}
      /\ (i > last.period + 1 /\ last.tbl.data["direction"][i] = Num(1)
            /\ last.tbl.data["direction"][i - 1] = Num(1)) =>
           Ge(last.tbl.data["supertrend"][i], last.tbl.data["supertrend"][i - 1])
      /\ (i > last.period + 1 /\ last.tbl.data["direction"][i] = Num(-1)
            /\ last.tbl.data["direction"][i - 1] = Num(-1)) =>
           Le(last.tbl.data["supertrend"][i], last.tbl.data["supertrend"][i - 1])
\* with the default period the close breaks above the upper band on a second
\* row of direction 1 and the line falls to the lower band of that row
C27_LineFallsInUptrend ==
  /\ last.op = "supertrend"
  /\ last.period = 10
  /\ \E i \in (last.period + 2)..NRows(last.tbl) :
       /\ last.tbl.data["direction"][i] = Num(1)
       /\ last.tbl.data["direction"][i - 1] = Num(1)
       /\ Lt(last.tbl.data["supertrend"][i], last.tbl.data["supertrend"][i - 1])

\* the typical price of bar i of t, times 3, and the sum of the volumes of
\* the bars of rows lo..hi whose typical price rose (sign 1) or fell (sign -1)
Typical3(t, i) == Col(t, "high")[i].v + Col(t, "low")[i].v + Col(t, "close")[i].v
RECURSIVE FlowBars(_, _, _, _)
FlowBars(t, lo, hi, sign) ==
  IF lo > hi THEN 0
  ELSE FlowBars(t, lo, hi - 1, sign)
         + (IF hi > 1 /\ SgnI(Typical3(t, hi) - Typical3(t, hi - 1)) = sign
               /\ Col(t, "volume")[hi].v > 0 THEN 1 ELSE 0)

\* C22: at every row with a full 14-bar window MFI is a number in [0, 100];
\* it is 100 when no bar of the window has negative money flow and 0 when
\* none has positive money flow.
C22_MfiDefined ==
  (last.op = "mfi" /\ AllNum(Col(orig, "close"), 1, NRows(orig))) =>
    \A i \in 14..NRows(orig) :
      /\ IsNum(last.tbl.data["mfi"][i])
      /\ Ge(last.tbl.data["mfi"][i], Num(0))
      /\ Le(last.tbl.data["mfi"][i], Num(100))
      /\ FlowBars(orig, i - 13, i, -1) = 0 => last.tbl.data["mfi"][i] = Num(100)
      /\ (FlowBars(orig, i - 13, i, 1) = 0 /\ FlowBars(orig, i - 13, i, -1) > 0) =>
           last.tbl.data["mfi"][i] = Num(0)
\* MFI of a window without any money flow is NaN
C22_MfiOfFlatWindow ==
  /\ last.op = "mfi"
  /\ \E i \in 14..NRows(orig) :
       /\ FlowBars(orig, i - 13, i, 1) = 0
       /\ FlowBars(orig, i - 13, i, -1) = 0
       /\ IsNaN(last.tbl.data["mfi"][i])
\* MFI of a window of falling prices is 0, of rising prices 100
C22_MfiAtTheEnds ==
  /\ last.op = "mfi"
  /\ \E i \in 14..NRows(orig) :
       \/ FlowBars(orig, i - 13, i, 1) = 0 /\ last.tbl.data["mfi"][i] = Num(0)
       \/ FlowBars(orig, i - 13, i, -1) = 0 /\ last.tbl.data["mfi"][i] = Num(100)

\* C23: every pattern flag of detect_all_patterns is 0 or 1, and two series
\* that agree on their last five bars get the same flags at the last bar.
C23_FlagsOfFiveBars ==
  (last.op = "detect_all_patterns" /\ lastT.op = "detect_all_patterns" /\ cut = 0
     /\ last.kind = "DataFrame" /\ lastT.kind = "DataFrame") =>
    \A f \in Range(pattern_flags) :
      /\ \A i \in 1..NRows(last.tbl) : last.tbl.data[f][i] \in {Num(0), Num(1)}
      /\ last.tbl.data[f][NRows(last.tbl)] = lastT.tbl.data[f][NRows(lastT.tbl)]
\* hanging_man at the last bar changes with the close five bars back
C23_HangingManReadsSixthBar ==
  /\ last.op = "detect_all_patterns"
  /\ lastT.op = "detect_all_patterns"
  /\ cut = 0
  /\ orig = hanging_bars
  /\ last.tbl.data["hanging_man"][7] = Num(1)
  /\ lastT.tbl.data["hanging_man"][7] = Num(0)
\* morning_star at the last bar changes with the bodies of twenty bars
C23_MorningStarReadsAverage ==
  /\ last.op = "detect_all_patterns"
  /\ lastT.op = "detect_all_patterns"
  /\ cut = 0
  /\ orig = star_bars
  /\ last.tbl.data["morning_star"][20] = Num(1)
  /\ lastT.tbl.data["morning_star"][20] = Num(0)

\* 1 where the condition holds, else 0
Ind(p) == IF p THEN 1 ELSE 0
\* the three composite scores of row i of the feature table t
TrendSum(t, i) ==
  Sgn(Col(t, "Price_vs_SMA20")[i]) + Sgn(Col(t, "Price_vs_SMA50")[i])
    + Sgn(Col(t, "Price_vs_SMA200")[i])
BreakoutSum(t, i) ==
  2 * Ind(Lt(Col(t, "Distance_52W_High")[i], Num(5)))
    + Ind(Gt(Col(t, "Volume_Ratio_10D")[i], Dec(15, 10)))
    + Ind(Gt(Col(t, "RSI_14")[i], Num(55)) /\ Lt(Col(t, "RSI_14")[i], Num(75)))
    + Ind(Gt(Col(t, "MACD_Histogram")[i], Num(0)))
ReversalSum(t, i) ==
  2 * Ind(Lt(Col(t, "RSI_14")[i], Num(30))) + Ind(Lt(Col(t, "RSI_14")[i], Num(20)))
    + Ind(Col(t, "Volume_Spike")[i] = Num(1))
    + Ind(Lt(Col(t, "Price_Position")[i], Dec(2, 10)))

LabelFromEnd(k) == orig.index[NRows(orig) - k]
\* the table returned holds the k-th row from the end of the caller's table
HoldsFromEnd(k) == NRows(orig) > k /\ LabelFromEnd(k) \in Range(last.tbl.index)
\* the cell of column c in the returned row of the k-th bar from the end
CellFromEnd(c, k) ==
  Col(last.tbl, c)[CHOOSE i \in 1..NRows(last.tbl) : last.tbl.index[i] = LabelFromEnd(k)]

\* C25: a row comes back with a label only if the bar the label refers to
\* exists: the table of generate_features(include_target=True) does not hold
\* the last bar, and the training table with the 1-, 3- and 5-bar targets does
\* not hold any of the last five bars.
C25_LabelsHaveFuture ==
  /\ (last.op = "generate_features" /\ last.flag /\ last.kind = "DataFrame") =>
       ~HoldsFromEnd(0)
  /\ (last.op = "prepare_training_data" /\ last.kind = "DataFrame") =>
       \A k \in 0..4 : ~HoldsFromEnd(k)
\* generate_features returned the last bar with the label 0
C25_LastBarLabelled ==
  /\ last.op = "generate_features"
  /\ last.flag
  /\ last.kind = "DataFrame"
  /\ HoldsFromEnd(0)
  /\ CellFromEnd("Target", 0) = Num(0)
\* create_all_features labels the bar before the last with 3-bar and 5-bar
\* targets of 0 and a defined 1-bar target and return
C25_LateBarsLabelled ==
  /\ last.op = "create_all_features"
  /\ last.kind = "DataFrame"
  /\ NRows(last.tbl) = 12
  /\ Col(last.tbl, "target_3d")[11] = Num(0)
  /\ Col(last.tbl, "target_5d")[11] = Num(0)
  /\ Col(last.tbl, "target_5d")[8] = Num(0)
  /\ IsNum(Col(last.tbl, "target_return")[11])
  /\ IsNaN(Col(last.tbl, "target_return")[12])

\* C28: TechnicalIndicators.obv and volume.calculate_obv give the same value
\* at every row of every close/volume series, row 0 included.
C28_ObvAgree ==
  last.op = "calculate_obv" =>
    \A i \in 1..NRows(last.tbl) :
      last.tbl.data["obv"][i] = last.tbl.data["calculate_obv"][i]
\* on a series without NaN the library starts at the first volume and the
\* pipeline at NaN, and from row 1 on the two are the first volume apart
C28_ObvApartByFirstVolume ==
  /\ last.op = "calculate_obv"
  /\ NRows(last.tbl) >= 5
  /\ AllNum(Col(indicators.df, "close"), 1, NRows(last.tbl))
  /\ Gt(Col(indicators.df, "volume")[1], Num(0))
  /\ last.tbl.data["obv"][1] = Col(indicators.df, "volume")[1]
  /\ IsNaN(last.tbl.data["calculate_obv"][1])
  /\ \A i \in 2..NRows(last.tbl) :
       Sub(last.tbl.data["obv"][i], last.tbl.data["calculate_obv"][i])
         = Col(indicators.df, "volume")[1]

\* ---- the training route (SpecTraining)
\* the status of a job moves pending -> running -> completed or failed, and a
\* new job is pending
StatusMoves ==
  /\ Len(training_jobs') >= Len(training_jobs)
  /\ \A j \in 1..Len(training_jobs') :
       IF j > Len(training_jobs) THEN training_jobs'[j].status = "pending"
       ELSE \/ training_jobs'[j].status = training_jobs[j].status
            \/ <<training_jobs[j].status, training_jobs'[j].status>> \in
                 {<<"pending", "running">>, <<"running", "completed">>,
                  <<"running", "failed">>}
\* a request that found an earlier job pending or running got 409 and no job
BusyRejected ==
  \A k \in 1..Len(replies) :
    replies[k].busy => replies[k].code = 409 /\ replies[k].job = 0
\* C29: at most one training job is pending or running at any time: a POST
\* /train that arrives while an earlier accepted job is neither completed nor
\* failed is rejected with 409 and creates no job record, and the status of a
\* job only moves pending -> running -> completed or failed.
C29_OneJobAtATime ==
  /\ [](Cardinality(Active(training_jobs)) <= 1 /\ BusyRejected)
  /\ [][StatusMoves]_vars
\* a second request was accepted while the job of the first was still
\* pending, and both jobs wait for their task
C29_TwoJobsPending ==
  /\ Len(replies) = 2
  /\ replies[2] = [code |-> 200, job |-> 2, busy |-> TRUE]
  /\ \A j \in 1..2 : training_jobs[j].status = "pending"
  /\ background = {1, 2}
\* one job runs while another is still pending
C29_RunningBesidePending ==
  /\ task # 0
  /\ \E j \in 1..Len(training_jobs) : training_jobs[j].status = "pending"

\* ---- the scheduler (SpecScheduler)
\* the threads inside run_daily_training
Training == {t \in Threads : pc[t] = "training"}
\* the threads between setting training_in_progress and clearing it
InTry == {t \in Threads : pc[t] \in {"training", "finally"}}
\* C30: the scheduled job and the forced training never execute
\* run_daily_training at the same time: while one of them is training, the
\* other has been skipped or has returned 'Training already in progress' and
\* stands outside its method; and training_in_progress is false whenever no
\* training is executing.
C30_OneTrainingAtATime ==
  /\ Cardinality(Training) <= 1
  /\ \A t \in Training : \A u \in Threads \ {t} : pc[u] = "idle"
  /\ InTry = {} => training_in_progress = FALSE
\* both threads are inside run_daily_training
C30_BothTraining == Training = Threads
\* the flag is down while a thread is still inside run_daily_training
C30_FlagDownWhileTraining ==
  /\ Training # {}
  /\ training_in_progress = FALSE
\* the flag does its work when the threads do not overlap at the check: a
\* thread that entered while the other was training was turned away
C30_TurnedAway ==
  /\ pc["scheduler"] = "training"
  /\ outcome["executor"] = "Training already in progress"

====
